---- MODULE Spec2Model ----
(***************************************************************************)
(* A model of the relational store of src/lib/Store.ts: collections kept   *)
(* as hashes of JSON record metadata, secondary index hashes, the foreign  *)
(* key resolution engine, and the lock-guarded add / update operations,    *)
(* each store round trip being one step of the calling operation.          *)
(***************************************************************************)
EXTENDS Integers, Sequences, FiniteSets, TLC

\* ------------------------------------------------------------------ bounds

\* Number of concurrent callers in the concurrent specifications.
NProcs == 2
\* Cap of a collection's _index counter (every add increments it).
MaxIndex == 2
\* Backing-store commands that may fail (reject / null reply) in one run.
MaxFailures == 1
\* Resolution levels followed before a read is reported as not returning.
MaxFuel == 3
\* Cap of the length of a queue.
MaxQueue == 2

Procs == 1..NProcs

\* ------------------------------------------------------------ JS values

\* A JavaScript value: its type tag, its String(x) text and, for an object
\* used as an id set ({id: null, ...}), its keys.
Str(s) == [t |-> "str", v |-> s, ks |-> {}]
Num(s) == [t |-> "num", v |-> s, ks |-> {}]
Undefined == [t |-> "undef", v |-> "undefined", ks |-> {}]
NaN == [t |-> "nan", v |-> "NaN", ks |-> {}]
Null == [t |-> "null", v |-> "null", ks |-> {}]
IdMap(S) == [t |-> "map", v |-> "[object Object]", ks |-> S]

\* String(x) and `${x}`
String(x) == x.v
\* Object.keys(x) of a value
ObjectKeys(x) == x.ks
\* !x
Falsy(x) ==
  \/ x.t \in {"undef", "nan", "null"}
  \/ x.t = "num" /\ x.v = "0"
  \/ x.t = "str" /\ x.v = ""

Empty == << >>

\* f with key k set to v (an object spread {...f, [k]: v})
Put(f, k, v) == [x \in DOMAIN f \cup {k} |-> IF x = k THEN v ELSE f[x]]

\* {...a, ...b}
Spread(a, b) == [x \in DOMAIN a \cup DOMAIN b |-> IF x \in DOMAIN b THEN b[x] ELSE a[x]]

\* f without key k
Drop(f, k) == [x \in DOMAIN f \ {k} |-> f[x]]

RECURSIVE SetToSeq(_)
SetToSeq(S) ==
  IF S = {} THEN << >>
  ELSE LET x == CHOOSE y \in S : TRUE IN <<x>> \o SetToSeq(S \ {x})

RECURSIVE Flatten(_)
Flatten(ss) == IF ss = << >> THEN << >> ELSE Head(ss) \o Flatten(Tail(ss))

\* a serialisation that loses every value
jsonOfNulls(o) == [k \in DOMAIN o |-> Null]

\* JSON.parse(JSON.stringify(o)) of an object of values: a property whose
\* value is undefined is left out, NaN is written as null.
JsonObject(o) ==
  [k \in {x \in DOMAIN o : o[x].t # "undef"} |->
     IF o[k].t = "nan" THEN Null ELSE o[k]]

\* JSON.parse(JSON.stringify(item)) of a record's metadata
JsonRoundTrip(md) ==
  [id |-> md.id,
   val |-> JsonObject(md.val),
   foreignKeys |-> md.foreignKeys,
   indexedIn |-> JsonObject(md.indexedIn)]

\* An object whose key order matters is the list of its properties in the order
\* they were written: k the key, v a value (t = "val") or such an object
\* (t = "obj").
KeyOrder == <<"challengeId", "nestedKey", "simpleNummberKey">>

\* the keys of an object in the order it was written in, but those whose value
\* is undefined
insertionKeys(node) ==
  LET kept == SelectSeq(node, LAMBDA pr : ~(pr.t = "val" /\ pr.v.t = "undef"))
  IN [j \in 1..Len(kept) |-> kept[j].k]

\* the keys json-stable-stringify writes, sorted: those of the object but the
\* ones whose value is undefined
sortedKeys(node) ==
  SelectSeq(KeyOrder, LAMBDA k : \E i \in 1..Len(node) :
                          node[i].k = k /\ ~(node[i].t = "val" /\ node[i].v.t = "undef"))

\* jsonStableStringify(item): the text, as the list of the properties written,
\* at every level in the order of the sorted keys; NaN is written as null.
RECURSIVE jsonStableStringify(_)
jsonStableStringify(node) ==
  LET keys == sortedKeys(node)
  IN [j \in 1..Len(keys) |->
        LET pr == node[CHOOSE i \in 1..Len(node) : node[i].k = keys[j]]
        IN IF pr.t = "obj"
           THEN [k |-> pr.k, t |-> "obj", v |-> jsonStableStringify(pr.v)]
           ELSE [k |-> pr.k, t |-> "val", v |-> IF pr.v.t = "nan" THEN Null ELSE pr.v]]

\* ------------------------------------------------------------- util.ts

toCollectionId(collection, id) == id

\* `queue:${queue}`, kept as its parts
toQueueName(queue) == <<"queue", queue>>

\* `${collection}:by:${byField}`, kept as its ':by:'-separated parts
toIndexedCollectionName(collection, byField) == <<collection, byField>>

\* indexedCollection.split(':by:')[1]
getByFieldNameFromIndexedCollection(indexedCollection) == indexedCollection[2]

\* this.namespace of a Store constructed with config.namespace
namespaceOf(config) == IF config = "" THEN "" ELSE config \o "::"

\* `${this.namespace}${collection}`
toNamespacedCollection(config, collection) == namespaceOf(config) \o collection

\* ---------------------------------------------------------------- state

VARIABLES
  items,     \* collection -> (id -> stored record metadata): the hash fields but _index
  index,     \* collection -> value of the hash field _index (0: the field is absent)
  indexes,   \* index hash name -> (String(value) -> id): the hashes <collection>:by:<field>
  queues,    \* list name queue:<queue> -> the texts rpush stored, in order
  locks,     \* held lock (redis-lock resource) -> the caller holding it
  pc,        \* caller -> the step it is at
  op,        \* caller -> the operation it runs, with its arguments
  loc,       \* caller -> the operation's local variables
  res,       \* caller -> the result of its last completed operation
  fails,     \* backing-store failures so far
  acq,       \* history: the callers whose current call took a lock, in the order they did
  wrote      \* history: caller -> its write batch was executed by the store

vars == <<items, index, indexes, queues, locks, pc, op, loc, res, fails, acq, wrote>>

Collections == {"peers", "guests"}
Queues == {"quickPairings"}
Ids == {"1", "2"}

\* ------------------------------------------------- backing store reads

\* a hget answering with a field of the hash when the field asked for is absent
hgetOfAny(collection, field) ==
  IF collection \in DOMAIN items /\ field \in DOMAIN items[collection]
  THEN <<items[collection][field]>>
  ELSE IF collection \in DOMAIN items /\ DOMAIN items[collection] # {}
  THEN <<items[collection][CHOOSE f \in DOMAIN items[collection] : TRUE]>>
  ELSE << >>

\* The reply of hget / hmget for one field: << >> is null.
hget(collection, field) ==
  IF collection \in DOMAIN items /\ field \in DOMAIN items[collection]
  THEN <<items[collection][field]>>
  ELSE << >>

\* a hmget answering in the reverse order of the fields
hmgetReversed(collection, fields) ==
  [j \in 1..Len(fields) |-> hget(collection, fields[Len(fields) + 1 - j])]

hmget(collection, fields) == [j \in 1..Len(fields) |-> hget(collection, fields[j])]

\* a hlen that leaves the _index field out
hlenOfRecords(its, idx, collection) == Cardinality(DOMAIN its[collection])

\* hlen: the record fields plus the _index field
hlen(its, idx, collection) ==
  Cardinality(DOMAIN its[collection]) + (IF idx[collection] > 0 THEN 1 ELSE 0)

\* a hget on an index hash answering with an entry of it when the key is absent
hgetIndexedOfAny(indexedCollection, key) ==
  IF indexedCollection \in DOMAIN indexes /\ key \in DOMAIN indexes[indexedCollection]
  THEN <<indexes[indexedCollection][key]>>
  ELSE IF indexedCollection \in DOMAIN indexes /\ DOMAIN indexes[indexedCollection] # {}
  THEN <<indexes[indexedCollection][CHOOSE k \in DOMAIN indexes[indexedCollection] : TRUE]>>
  ELSE << >>

\* The reply of hget on an index hash: << >> is null.
hgetIndexed(indexedCollection, key) ==
  IF indexedCollection \in DOMAIN indexes /\ key \in DOMAIN indexes[indexedCollection]
  THEN <<indexes[indexedCollection][key]>>
  ELSE << >>

\* ------------------------------------------- relational resolution engine

\* The foreign ids one foreign-key field of a record refers to.
foreignIds(itemMetadata, fk) ==
  IF fk.type = "oneToMany"
  THEN IF fk.k \in DOMAIN itemMetadata.val
       THEN ObjectKeys(itemMetadata.val[fk.k]) ELSE {}
  ELSE {IF fk.k \in DOMAIN itemMetadata.val
        THEN String(itemMetadata.val[fk.k]) ELSE String(Undefined)}

\* The inner reduce of compactAllForeignKeys over one record's foreign keys,
\* from the i-th on: p maps a foreign collection to the ids gathered so far.
\* The spread is of p[k], k being the FIELD name.
RECURSIVE valuesMap(_, _, _)
valuesMap(itemMetadata, i, p) ==
  IF i > Len(itemMetadata.foreignKeys) THEN p
  ELSE LET fk == itemMetadata.foreignKeys[i]
           pk == IF fk.k \in DOMAIN p THEN p[fk.k] ELSE {}
       IN valuesMap(itemMetadata, i + 1,
                    Put(p, fk.collection, pk \cup foreignIds(itemMetadata, fk)))

deepmerge(a, b) ==
  [c \in DOMAIN a \cup DOMAIN b |->
     (IF c \in DOMAIN a THEN a[c] ELSE {}) \cup (IF c \in DOMAIN b THEN b[c] ELSE {})]

RECURSIVE compactFrom(_, _, _)
compactFrom(itemsMetadata, i, prev) ==
  IF i > Len(itemsMetadata) THEN prev
  ELSE compactFrom(itemsMetadata, i + 1,
                   deepmerge(prev, valuesMap(itemsMetadata[i], 1, Empty)))

\* foreign collection -> the ids to fetch from it
compactAllForeignKeys(itemsMetadata) == compactFrom(itemsMetadata, 1, Empty)

\* The foreign collections one hmget is queued for: those with ids to fetch.
transactions(itemsMetadata) ==
  LET all == compactAllForeignKeys(itemsMetadata)
  IN SetToSeq({c \in DOMAIN all : all[c] # {}})

\* The reply of the level's execMulti, flattened: per queued collection and
\* foreign id, the collection and the hmget reply.
execMultiForeign(itemsMetadata) ==
  LET all == compactAllForeignKeys(itemsMetadata)
      cs == transactions(itemsMetadata)
  IN Flatten([i \in 1..Len(cs) |->
        LET fids == SetToSeq(all[cs[i]])
        IN [j \in 1..Len(fids) |->
              [collection |-> cs[i],
               reply |-> hget(cs[i], toCollectionId(cs[i], fids[j]))]]])

metadataOf(level) == [j \in 1..Len(level) |-> level[j].itemMetadata]

\* A level of resolveForeignItems is the list of records it is called with,
\* each with the collection it was fetched from.
asLevel(collection, itemsMetadata) ==
  [j \in 1..Len(itemsMetadata) |->
     [collection |-> collection, itemMetadata |-> itemsMetadata[j]]]

\* One invocation of resolveForeignItems on the last level fetched, up to its
\* recursive call: "done" (nothing to fetch), "err" (an id came back null) or
\* "more" with the level fetched.
resolveStep(levels) ==
  LET mds == metadataOf(levels[Len(levels)])
      fetched == execMultiForeign(mds)
  IN IF transactions(mds) = << >> THEN [kind |-> "done", levels |-> levels]
     ELSE IF \E j \in 1..Len(fetched) : fetched[j].reply = << >>
          THEN [kind |-> "err", levels |-> levels]
          ELSE [kind |-> "more",
                levels |-> Append(levels,
                   [j \in 1..Len(fetched) |->
                      [collection |-> fetched[j].collection,
                       itemMetadata |-> fetched[j].reply[1]]])]

\* resolved records of one level grouped by foreign collection and id
byCollectionAndId(resolved) ==
  [c \in {resolved[j].collection : j \in 1..Len(resolved)} |->
     [fid \in {resolved[j].md.id : j \in {x \in 1..Len(resolved) : resolved[x].collection = c}} |->
        resolved[CHOOSE j \in 1..Len(resolved) :
                   resolved[j].collection = c /\ resolved[j].md.id = fid]]]

\* A property read of undefined (a TypeError) while one record's foreign items
\* are put together: Object.keys of a missing field, or a lookup in a foreign
\* collection nothing was fetched from.
reassembleThrows(itemMetadata, group) ==
  \E i \in 1..Len(itemMetadata.foreignKeys) :
     LET fk == itemMetadata.foreignKeys[i]
     IN IF fk.type = "oneToMany"
        THEN \/ fk.k \notin DOMAIN itemMetadata.val
             \/ /\ ObjectKeys(itemMetadata.val[fk.k]) # {}
                /\ fk.collection \notin DOMAIN group
        ELSE fk.collection \notin DOMAIN group

\* group[collection][fid], << >> when undefined
lookup(group, collection, fid) ==
  IF fid \in DOMAIN group[collection] THEN <<group[collection][fid]>> ELSE << >>

foreignItemsOf(itemMetadata, group, type) ==
  LET ks == {i \in 1..Len(itemMetadata.foreignKeys) : itemMetadata.foreignKeys[i].type = type}
  IN [k \in {itemMetadata.foreignKeys[i].k : i \in ks} |->
        LET fk == itemMetadata.foreignKeys[
                    CHOOSE i \in ks : itemMetadata.foreignKeys[i].k = k /\
                       \A j \in ks : itemMetadata.foreignKeys[j].k = k => j <= i]
        IN IF type = "oneToMany"
           THEN [fid \in ObjectKeys(itemMetadata.val[k]) |-> lookup(group, fk.collection, fid)]
           ELSE [fid \in {IF k \in DOMAIN itemMetadata.val
                          THEN String(itemMetadata.val[k]) ELSE String(Undefined)} |->
                   lookup(group, fk.collection, fid)]]

\* The bottom-up half of resolveForeignItems from level i: the records of the
\* level with their foreignItems.
RECURSIVE reassemble(_, _)
reassemble(levels, i) ==
  LET level == levels[i]
  IN IF i = Len(levels)
     THEN [kind |-> "ok",
           items |-> [j \in 1..Len(level) |->
              [collection |-> level[j].collection, md |-> level[j].itemMetadata,
               oneToOne |-> Empty, oneToMany |-> Empty]]]
     ELSE LET sub == reassemble(levels, i + 1)
              group == byCollectionAndId(sub.items)
          IN IF sub.kind # "ok" THEN sub
             ELSE IF \E j \in 1..Len(level) : reassembleThrows(level[j].itemMetadata, group)
             THEN [kind |-> "throw", items |-> << >>]
             ELSE [kind |-> "ok",
                   items |-> [j \in 1..Len(level) |->
                      [collection |-> level[j].collection, md |-> level[j].itemMetadata,
                       oneToOne |-> foreignItemsOf(level[j].itemMetadata, group, "oneToOne"),
                       oneToMany |-> foreignItemsOf(level[j].itemMetadata, group, "oneToMany")]]]

\* metadataReplyToCollectionItem reads a property of undefined (a TypeError)
RECURSIVE replyThrows(_)
replyThrows(metadata) ==
  \E type \in {"oneToOne", "oneToMany"} :
    \E k \in DOMAIN metadata[type] : \E fid \in DOMAIN metadata[type][k] :
       \/ metadata[type][k][fid] = << >>
       \/ replyThrows(metadata[type][k][fid][1])

\* The caller's shape of a resolved record: its id, the fields of val that no
\* foreign item replaces, and per foreign-key field the hydrated record(s),
\* keyed by id (a oneToOne field holds one). A oneToMany field hydrated to no
\* record is the object {}, which the id set {} of val is too: it is kept
\* as that value.
RECURSIVE metadataReplyToCollectionItem(_)
metadataReplyToCollectionItem(metadata) ==
  LET many == {k \in DOMAIN metadata.oneToMany : DOMAIN metadata.oneToMany[k] # {}}
  IN [id |-> metadata.md.id,
      val |-> [k \in DOMAIN metadata.md.val \ (DOMAIN metadata.oneToOne \cup many \cup {"id"}) |->
                 metadata.md.val[k]],
      oneToOne |-> [k \in DOMAIN metadata.oneToOne |->
         [fid \in DOMAIN metadata.oneToOne[k] |->
            metadataReplyToCollectionItem(metadata.oneToOne[k][fid][1])]],
      oneToMany |-> [k \in many |->
         [fid \in DOMAIN metadata.oneToMany[k] |->
            metadataReplyToCollectionItem(metadata.oneToMany[k][fid][1])]]]

\* ------------------------------------------------------ callers' records

NoGetter == [kind |-> "props", props |-> Empty, add |-> ""]

\* An operation and its arguments. id is << >> when the argument is left out;
\* itemModelGetter is a plain partial value ("props"), a function of the
\* previous value adding one key to its `subscribers` ("fn"), a function
\* returning an asynchronous result ("asyncOk" of props, "asyncErr") or a
\* function that throws ("throws").
NoOp ==
  [name |-> "none", collection |-> "", id |-> << >>, ids |-> << >>, val |-> Empty,
   foreignKeys |-> << >>, indexBy |-> << >>, itemModelGetter |-> NoGetter,
   byKey |-> "", keyVal |-> Null, q |-> "", item |-> << >>]

\* The locals of a call. `after` is history: for a getItemInCollection, the add
\* the caller completed just before it, if that is what it did last.
NoLoc ==
  [resolvedId |-> "", ids |-> << >>, prev |-> << >>, next |-> << >>, levels |-> << >>,
   index |-> 0, length |-> 0, hmgets |-> 0, batches |-> 0, after |-> << >>]

\* A result: kind is "Ok", "Err" (an Err value, err its error), "Throw" (the
\* promise rejects: a store error or a TypeError) or "none"; value holds the
\* item(s) of an Ok.
NoRes ==
  [kind |-> "none", err |-> "", value |-> << >>, index |-> 0, length |-> 0,
   hmgets |-> 0, batches |-> 0]

Ok(value) == [kind |-> "Ok", err |-> "", value |-> value]
Err(e) == [kind |-> "Err", err |-> e, value |-> << >>]
Throw(e) == [kind |-> "Throw", err |-> e, value |-> << >>]

\* n as a decimal string: String(n)
DecimalString(n) ==
  CASE n = 0 -> "0" [] n = 1 -> "1" [] n = 2 -> "2" [] n = 3 -> "3"
    [] n = 4 -> "4" [] OTHER -> "5"

\* ---------------------------------------------------------------- locks

\* the redis-lock resource `locked:${collection}`
lockCollection(collection) == <<"locked", collection>>

\* one resource for all the items of a collection, the collection's
lockOfWholeCollection(collection, id) == lockCollection(collection)

\* the redis-lock resource `locked:${collection}:${id}`
lockCollectionItem(collection, id) == <<"locked", collection, id>>

\* a lock granting a resource that is held: the fault mutual exclusion rules out
lockAlwaysFree(resource) == TRUE

\* an unlock() that leaves the resource held
neverUnlocked(rs) == locks

\* redis-lock grants a resource to one holder at a time
lockIsFree(resource) == resource \notin DOMAIN locks

\* the unlock() callback of the resources rs
unlocked(rs) == [r \in DOMAIN locks \ rs |-> locks[r]]

\* only an add has a lock to release
lockOfAdd(o) ==
  IF o.name = "addItemToCollection" THEN {lockCollection(o.collection)} ELSE {}

\* The lock an operation takes: the collection's for an add, the item's for
\* an update, none otherwise.
lockOf(o) ==
  CASE o.name = "addItemToCollection" -> {lockCollection(o.collection)}
    [] o.name = "updateItemInCollection" -> {lockCollectionItem(o.collection, o.id[1])}
    [] OTHER -> {}

\* ------------------------------------------------ completion of a call

\* What a read that has fetched all its levels gives: the hydrated items, or
\* the TypeError of putting them together.
resolved(levels) ==
  LET r == reassemble(levels, 1)
  IN IF r.kind # "ok" THEN Throw("TypeError")
     ELSE IF \E j \in 1..Len(r.items) : replyThrows(r.items[j]) THEN Throw("TypeError")
     ELSE Ok([j \in 1..Len(r.items) |-> metadataReplyToCollectionItem(r.items[j])])

\* The operation o of caller p ends with result r, its locals being l: an add
\* and an update unlock the resource here (unlock(), .finally(unlock)).
complete(p, o, r, l) ==
  /\ pc' = [pc EXCEPT ![p] = "idle"]
  /\ res' = [res EXCEPT ![p] =
        [kind |-> r.kind, err |-> r.err, value |-> r.value,
         index |-> IF r.kind = "Ok" THEN l.index ELSE 0,
         length |-> IF r.kind = "Ok" THEN l.length ELSE 0,
         hmgets |-> l.hmgets, batches |-> l.batches]]
  /\ loc' = [loc EXCEPT ![p] = l]
  /\ locks' = unlocked(lockOf(o))

\* history: the add caller p has just completed, when o is a getItemInCollection
justAdded(p, o) ==
  IF o.name = "getItemInCollection" /\ op[p].name = "addItemToCollection"
  THEN <<[op |-> op[p], res |-> res[p]]>>
  ELSE << >>

\* history: what caller p has just completed, when the call of o is one that is
\* to be compared with it: a getItemInCollectionBy after an update, an add
\* without indexBy of the id just removed, a getItemInCollectionBy after that
\* add, a read of or an add to the collection just removed
justCompleted(p, o) ==
  IF /\ o.name = "getItemInCollectionBy" /\ op[p].name = "updateItemInCollection"
     /\ res[p].kind = "Ok"
  THEN <<[op |-> op[p], res |-> res[p], prev |-> loc[p].prev, next |-> loc[p].next]>>
  ELSE IF /\ op[p].name = "removeCollection" /\ res[p].kind = "Ok"
          /\ o.collection = op[p].collection
          /\ o.name \in {"getAllItemsInCollection", "getItemInCollection",
                          "getCollectionIndex", "getItemInCollectionBy",
                          "addItemToCollection"}
  THEN <<[op |-> op[p], res |-> res[p]]>>
  ELSE IF /\ o.name = "addItemToCollection" /\ op[p].name = "removeItemInCollection"
          /\ res[p].kind = "Ok" /\ o.id = op[p].id /\ o.indexBy = << >>
  THEN <<[op |-> op[p], res |-> res[p], prev |-> loc[p].prev]>>
  ELSE IF /\ o.name = "getItemInCollectionBy" /\ op[p].name = "addItemToCollection"
          /\ res[p].kind = "Ok" /\ loc[p].after # << >>
  THEN <<[op |-> op[p], res |-> res[p], after |-> loc[p].after]>>
  ELSE justAdded(p, o)

\* A call of operation o by caller p starts: its first step is pending.
call(p, o, first) ==
  /\ pc[p] = "idle"
  /\ op' = [op EXCEPT ![p] = o]
  /\ pc' = [pc EXCEPT ![p] = first]
  /\ loc' = [loc EXCEPT ![p] = [NoLoc EXCEPT !.ids = o.ids, !.after = justCompleted(p, o)]]
  /\ res' = [res EXCEPT ![p] = NoRes]
  /\ wrote' = [wrote EXCEPT ![p] = FALSE]
  /\ acq' = SelectSeq(acq, LAMBDA q : q # p)
  /\ UNCHANGED <<items, index, indexes, locks, fails>>

\* ------------------------------------------------------------- reads

\* After a level has been fetched: resolveForeignItems of it either has
\* nothing to fetch, and the read completes, or queues the next execMulti.
\* Past MaxFuel levels the read is left fetching (it does not return).
resolveNext(p, l) ==
  IF transactions(metadataOf(l.levels[Len(l.levels)])) = << >>
  THEN complete(p, op[p], resolved(l.levels), l)
  ELSE /\ pc' = [pc EXCEPT ![p] =
             IF Len(l.levels) > MaxFuel THEN "get:unbounded" ELSE "get:execMulti"]
       /\ loc' = [loc EXCEPT ![p] = l]
       /\ UNCHANGED <<res, locks>>

\* getShallowItemsInCollectionWithMetadata, then resolveForeignItems: the
\* hmget of the requested ids. Any null reply fails the read.
getShallowItems(p) ==
  /\ pc[p] = "get:hmget"
  /\ LET o == op[p]
         ids == loc[p].ids
         replies == hmget(o.collection, [j \in 1..Len(ids) |-> toCollectionId(o.collection, ids[j])])
         l == [loc[p] EXCEPT !.hmgets = @ + 1,
                 !.levels = <<asLevel(o.collection, [j \in 1..Len(ids) |-> replies[j][1]])>>]
     IN IF \E j \in 1..Len(ids) : replies[j] = << >>
        THEN complete(p, o, Err("CollectionFieldInexistent"), [loc[p] EXCEPT !.hmgets = @ + 1])
        ELSE resolveNext(p, l)
  /\ UNCHANGED <<items, index, indexes, op, fails, acq, wrote>>
  /\ UNCHANGED queues

\* resolveForeignItems: the execMulti of one level's hmgets. Any null reply
\* fails the read.
resolveForeignItems(p) ==
  /\ pc[p] = "get:execMulti"
  /\ LET st == resolveStep(loc[p].levels)
         l == [loc[p] EXCEPT !.batches = @ + 1, !.levels = st.levels]
     IN IF st.kind = "err"
        THEN complete(p, op[p], Err("CollectionFieldInexistent"), l)
        ELSE resolveNext(p, l)
  /\ UNCHANGED <<items, index, indexes, op, fails, acq, wrote>>
  /\ UNCHANGED queues

\* getItemInCollection(collection, id) and getItemsInCollection(collection,
\* ids) are called: an empty id list is answered without a hmget.
getItemsInCollection(p, o) ==
  /\ o.name \in {"getItemInCollection", "getItemsInCollection"}
  /\ IF o.ids = << >>
     THEN /\ pc[p] = "idle"
          /\ op' = [op EXCEPT ![p] = o]
          /\ wrote' = [wrote EXCEPT ![p] = FALSE]
          /\ acq' = SelectSeq(acq, LAMBDA q : q # p)
          /\ complete(p, o, resolved(<< << >> >>), NoLoc)
          /\ UNCHANGED <<items, index, indexes, fails>>
     ELSE call(p, o, "get:hmget")
  /\ UNCHANGED queues

\* getItemInCollectionBy is called
getItemInCollectionBy(p, o) ==
  /\ o.name = "getItemInCollectionBy"
  /\ call(p, o, "getBy:hget")
  /\ UNCHANGED queues

\* getItemInCollectionBy: the hget of the index hash, then getItemInCollection
\* of the id it holds.
getIndexedReference(p) ==
  /\ pc[p] = "getBy:hget"
  /\ LET o == op[p]
         referencedId == hgetIndexed(toIndexedCollectionName(o.collection, o.byKey),
                                     String(o.keyVal))
     IN IF referencedId = << >>
        THEN complete(p, o, Err("CollectionFieldInexistent"), loc[p])
        ELSE /\ pc' = [pc EXCEPT ![p] = "get:hmget"]
             /\ loc' = [loc EXCEPT ![p].ids = referencedId]
             /\ UNCHANGED <<res, locks>>
  /\ UNCHANGED <<items, index, indexes, op, fails, acq, wrote>>
  /\ UNCHANGED queues

\* ------------------------------------------------- backing store writes

\* hset of a record field
hsetItem(its, collection, field, payload) ==
  [its EXCEPT ![collection] = Put(@, field, payload)]

\* a hdel that deletes nothing
hdelNothing(its, collection, field) == its

\* hdel of a record field
hdelItem(its, collection, field) ==
  [its EXCEPT ![collection] = Drop(@, field)]

\* hset of an index hash: the key is the value's text
hsetIndexed(ixs, indexedCollection, key, id) ==
  Put(ixs, indexedCollection,
      Put(IF indexedCollection \in DOMAIN ixs THEN ixs[indexedCollection] ELSE Empty, key, id))

\* hdel of an index hash: a hash left empty is no key any more
hdelIndexed(ixs, indexedCollection, key) ==
  IF indexedCollection \notin DOMAIN ixs THEN ixs
  ELSE IF DOMAIN ixs[indexedCollection] \subseteq {key} THEN Drop(ixs, indexedCollection)
  ELSE Put(ixs, indexedCollection, Drop(ixs[indexedCollection], key))

\* val[byField], undefined when the property is missing
prop(val, k) == IF k \in DOMAIN val THEN val[k] ELSE Undefined

\* --------------------------------------------------------------- add

\* addItemToCollection is called
addItemToCollection(p, o) ==
  /\ o.name = "addItemToCollection"
  /\ index[o.collection] + Cardinality({q \in Procs : /\ pc[q] \in {"add:lock", "add:hget", "add:execMulti"}
                                                      /\ op[q].collection = o.collection}) < MaxIndex
  /\ call(p, o, "add:lock")
  /\ UNCHANGED queues

\* `id ? id : ...`: a given, non-empty id is taken as it is
idGiven(o) == o.id # << >> /\ o.id[1] # ""

\* await this.lockCollection(collection)
addLock(p) ==
  /\ pc[p] = "add:lock"
  /\ lockIsFree(lockCollection(op[p].collection))
  /\ locks' = Put(locks, lockCollection(op[p].collection), p)
  /\ acq' = Append(acq, p)
  /\ IF idGiven(op[p])
     THEN /\ pc' = [pc EXCEPT ![p] = "add:execMulti"]
          /\ loc' = [loc EXCEPT ![p].resolvedId = op[p].id[1]]
     ELSE /\ pc' = [pc EXCEPT ![p] = "add:hget"]
          /\ loc' = loc
  /\ UNCHANGED <<items, index, indexes, op, res, fails, wrote>>
  /\ UNCHANGED queues

\* hget(_index): the id is the counter plus one, '1' when there is none
addResolveId(p) ==
  /\ pc[p] = "add:hget"
  /\ pc' = [pc EXCEPT ![p] = "add:execMulti"]
  /\ loc' = [loc EXCEPT ![p].resolvedId = DecimalString(index[op[p].collection] + 1)]
  /\ UNCHANGED <<items, index, indexes, locks, op, res, fails, acq, wrote>>
  /\ UNCHANGED queues

\* the item an add stores: indexedIn has the value of each indexBy field
addedItem(o, resolvedId) ==
  [id |-> resolvedId,
   val |-> o.val,
   foreignKeys |-> o.foreignKeys,
   indexedIn |-> [n \in {toIndexedCollectionName(o.collection, o.indexBy[i]) :
                          i \in 1..Len(o.indexBy)} |->
                    prop(o.val, getByFieldNameFromIndexedCollection(n))]]

\* the index hashes after the hsets of an add, from the i-th indexBy field on
RECURSIVE addIndexed(_, _, _, _)
addIndexed(ixs, o, resolvedId, i) ==
  IF i > Len(o.indexBy) THEN ixs
  ELSE addIndexed(hsetIndexed(ixs, toIndexedCollectionName(o.collection, o.indexBy[i]),
                              String(prop(o.val, o.indexBy[i])), resolvedId),
                  o, resolvedId, i + 1)

\* execMulti of the add: hset of the record, hincrby of _index, hlen, hget
\* and one hset per indexBy field; then getItemInCollection of the added id.
addExecMulti(p) ==
  /\ pc[p] = "add:execMulti"
  /\ LET o == op[p]
         field == toCollectionId(o.collection, loc[p].resolvedId)
     IN /\ items' = hsetItem(items, o.collection, field,
                             JsonRoundTrip(addedItem(o, loc[p].resolvedId)))
        /\ index' = [index EXCEPT ![o.collection] = @ + 1]
        /\ indexes' = addIndexed(indexes, o, loc[p].resolvedId, 1)
        /\ loc' = [loc EXCEPT ![p].index = index'[o.collection],
                              ![p].length = hlen(items', index', o.collection) - 1,
                              ![p].ids = <<items'[o.collection][field].id>>]
  /\ pc' = [pc EXCEPT ![p] = "get:hmget"]
  /\ wrote' = [wrote EXCEPT ![p] = TRUE]
  /\ UNCHANGED <<locks, op, res, fails, acq>>
  /\ UNCHANGED queues

\* ------------------------------------------------------------- update

\* updateItemInCollection is called
updateItemInCollection(p, o) ==
  /\ o.name = "updateItemInCollection"
  /\ call(p, o, "update:lock")
  /\ UNCHANGED queues

\* await this.lockCollectionItem(collection, id)
updateLock(p) ==
  /\ pc[p] = "update:lock"
  /\ lockIsFree(lockCollectionItem(op[p].collection, op[p].id[1]))
  /\ locks' = Put(locks, lockCollectionItem(op[p].collection, op[p].id[1]), p)
  /\ acq' = Append(acq, p)
  /\ pc' = [pc EXCEPT ![p] = "update:hmget"]
  /\ UNCHANGED <<items, index, indexes, op, loc, res, fails, wrote>>
  /\ UNCHANGED queues

\* a deepEqual that finds any two declarations equal
deepEqualAlways(fks1, fks2) == TRUE

\* deepEqual of two foreignKeys declarations: the order of the keys is not compared
deepEqual(fks1, fks2) ==
  {fks1[i] : i \in 1..Len(fks1)} = {fks2[i] : i \in 1..Len(fks2)}

\* What itemModelGetter gives for the previous value: the partial value to merge.
itemModel(getter, prevVal) ==
  IF getter.kind = "fn"
  THEN [k \in {"subscribers"} |->
          IdMap(ObjectKeys(prop(prevVal, "subscribers")) \cup {getter.add})]
  ELSE getter.props

\* the supplied value stored as it is, not merged
nextItemReplaced(getter, prevVal) == itemModel(getter, prevVal)

\* the merged value: { ...prev.val, ...itemModelWithoutId }
nextItemOf(getter, prevVal) ==
  LET model == itemModel(getter, prevVal)
  IN Spread(prevVal, [k \in DOMAIN model \ {"id"} |-> model[k]])

\* every index hash of prev.indexedIn, whether its value differs or not
getIndexedInValueRecordsOfAll(prevItemWithMetadata, nextItem) ==
  LET keysOfIndexedIn == SetToSeq(DOMAIN prevItemWithMetadata.indexedIn)
  IN [j \in 1..Len(keysOfIndexedIn) |->
        LET n == keysOfIndexedIn[j]
        IN [indexedInCollection |-> n,
            indexedByField |-> getByFieldNameFromIndexedCollection(n),
            nextValue |-> prop(nextItem, getByFieldNameFromIndexedCollection(n)),
            prevValue |-> prevItemWithMetadata.indexedIn[n]]]

\* getIndexedInValueRecords: the index hashes of prev.indexedIn whose value differs
\* (!==) from the next item's field, in the order of the keys
getIndexedInValueRecords(prevItemWithMetadata, nextItem) ==
  LET keysOfIndexedIn == SetToSeq(DOMAIN prevItemWithMetadata.indexedIn)
      changed(n) == prevItemWithMetadata.indexedIn[n] #
                      prop(nextItem, getByFieldNameFromIndexedCollection(n))
  IN [j \in 1..Len(SelectSeq(keysOfIndexedIn, changed)) |->
        LET n == SelectSeq(keysOfIndexedIn, changed)[j]
        IN [indexedInCollection |-> n,
            indexedByField |-> getByFieldNameFromIndexedCollection(n),
            nextValue |-> prop(nextItem, getByFieldNameFromIndexedCollection(n)),
            prevValue |-> prevItemWithMetadata.indexedIn[n]]]

\* the next item with the indexedIn of the previous one
nextItemWithPrevIndexedIn(prev, nextItem) ==
  [id |-> prev.id, val |-> nextItem, foreignKeys |-> prev.foreignKeys,
   indexedIn |-> prev.indexedIn]

\* nextItemWithMetadata: the same id and foreignKeys, indexedIn with the changed values
nextItemWithMetadataOf(prev, nextItem) ==
  LET records == getIndexedInValueRecords(prev, nextItem)
  IN [id |-> prev.id,
      val |-> nextItem,
      foreignKeys |-> prev.foreignKeys,
      indexedIn |-> [n \in DOMAIN prev.indexedIn |->
         IF \E j \in 1..Len(records) : records[j].indexedInCollection = n
         THEN prop(nextItem, getByFieldNameFromIndexedCollection(n))
         ELSE prev.indexedIn[n]]]

\* the index hashes after the hset / hdel pairs of an update, from the i-th record on
RECURSIVE swapIndexed(_, _, _, _)
swapIndexed(ixs, records, id, i) ==
  IF i > Len(records) THEN ixs
  ELSE swapIndexed(
         hdelIndexed(hsetIndexed(ixs, records[i].indexedInCollection,
                                 String(records[i].nextValue), id),
                     records[i].indexedInCollection, String(records[i].prevValue)),
         records, id, i + 1)

\* getShallowItemsInCollectionWithMetadata of the id, the foreignKeys check and
\* the call of itemModelGetter with the stored value.
updateRead(p) ==
  /\ pc[p] = "update:hmget"
  /\ LET o == op[p]
         prev == hget(o.collection, toCollectionId(o.collection, o.id[1]))
         l == [loc[p] EXCEPT !.hmgets = @ + 1]
     IN IF prev = << >>
        THEN complete(p, o, Err("CollectionFieldInexistent"), l)
        ELSE IF ~deepEqual(o.foreignKeys, prev[1].foreignKeys)
        THEN complete(p, o, Err("CollectionUpdateFailure:MismatchingForeignKeys"), l)
        ELSE IF o.itemModelGetter.kind = "throws"
        THEN complete(p, o, Throw("Error"), l)
        ELSE IF o.itemModelGetter.kind = "asyncErr"
        THEN complete(p, o, Err("CollectionUpdateFailure"), l)
        ELSE /\ pc' = [pc EXCEPT ![p] = "update:execMulti"]
             /\ loc' = [loc EXCEPT ![p] = [l EXCEPT !.prev = prev,
                   !.next = <<nextItemWithMetadataOf(prev[1],
                                nextItemOf(o.itemModelGetter, prev[1].val))>>]]
             /\ UNCHANGED <<res, locks>>
  /\ UNCHANGED <<items, index, indexes, op, fails, acq, wrote>>
  /\ UNCHANGED queues

\* execMulti of the update: per changed index the hset of the new value and the
\* hdel of the old one, then the hset of the record; then getItemInCollection.
updateExecMulti(p) ==
  /\ pc[p] = "update:execMulti"
  /\ LET o == op[p]
         prev == loc[p].prev[1]
         next == loc[p].next[1]
     IN /\ indexes' = swapIndexed(indexes, getIndexedInValueRecords(prev, next.val),
                                  o.id[1], 1)
        /\ items' = hsetItem(items, o.collection, toCollectionId(o.collection, o.id[1]),
                             JsonRoundTrip(next))
        /\ loc' = [loc EXCEPT ![p].ids = <<o.id[1]>>]
  /\ pc' = [pc EXCEPT ![p] = "get:hmget"]
  /\ wrote' = [wrote EXCEPT ![p] = TRUE]
  /\ UNCHANGED <<index, locks, op, res, fails, acq>>
  /\ UNCHANGED queues

\* ------------------------------------------------------------- remove

\* removeItemInCollection is called
removeItemInCollection(p, o) ==
  /\ o.name = "removeItemInCollection"
  /\ call(p, o, "remove:hmget")
  /\ UNCHANGED queues

\* getShallowItemsInCollectionWithMetadata of the id: absent, the removal fails
removeRead(p) ==
  /\ pc[p] = "remove:hmget"
  /\ LET o == op[p]
         itemBeforeRemoval == hget(o.collection, toCollectionId(o.collection, o.id[1]))
         l == [loc[p] EXCEPT !.hmgets = @ + 1, !.prev = itemBeforeRemoval]
     IN IF itemBeforeRemoval = << >>
        THEN complete(p, o, Err("CollectionFieldInexistent"), l)
        ELSE /\ pc' = [pc EXCEPT ![p] = "remove:execMulti"]
             /\ loc' = [loc EXCEPT ![p] = l]
             /\ UNCHANGED <<res, locks>>
  /\ UNCHANGED <<items, index, indexes, op, fails, acq, wrote>>
  /\ UNCHANGED queues

\* indexByCollectionWithValuesZip: the entries of the removed item's indexedIn,
\* but those whose value is falsy
indexByCollectionWithValuesZip(parsedRemovedItem) ==
  LET truthy(n) == ~Falsy(parsedRemovedItem.indexedIn[n])
      names == SelectSeq(SetToSeq(DOMAIN parsedRemovedItem.indexedIn), truthy)
  IN [j \in 1..Len(names) |-> <<names[j], parsedRemovedItem.indexedIn[names[j]]>>]

\* execMulti of the removal: hdel of the record, hget of _index, hlen
removeExecMulti(p) ==
  /\ pc[p] = "remove:execMulti"
  /\ UNCHANGED <<index, indexes, op, fails, acq>>
  /\ LET o == op[p]
         l == [loc[p] EXCEPT !.index = index[o.collection],
                             !.length = hlen(items', index', o.collection) - 1]
     IN /\ items' = hdelItem(items, o.collection, toCollectionId(o.collection, o.id[1]))
        /\ IF Len(indexByCollectionWithValuesZip(loc[p].prev[1])) > 0
           THEN /\ pc' = [pc EXCEPT ![p] = "remove:indexes"]
                /\ loc' = [loc EXCEPT ![p] = l]
                /\ UNCHANGED <<res, locks>>
           ELSE complete(p, o, Ok(<< >>), l)
  /\ wrote' = [wrote EXCEPT ![p] = TRUE]
  /\ UNCHANGED queues

\* the index hashes after the hdels of a removal, from the i-th entry on
RECURSIVE removeIndexed(_, _, _)
removeIndexed(ixs, zip, i) ==
  IF i > Len(zip) THEN ixs
  ELSE removeIndexed(hdelIndexed(ixs, zip[i][1], String(zip[i][2])), zip, i + 1)

\* the second execMulti of the removal: one hdel per index entry of the item
removeIndexes(p) ==
  /\ pc[p] = "remove:indexes"
  /\ indexes' = removeIndexed(indexes, indexByCollectionWithValuesZip(loc[p].prev[1]), 1)
  /\ complete(p, op[p], Ok(<< >>), loc[p])
  /\ UNCHANGED <<items, index, op, fails, acq, wrote>>
  /\ UNCHANGED queues

\* removeItemInCollectionBy is called
removeItemInCollectionBy(p, o) ==
  /\ o.name = "removeItemInCollectionBy"
  /\ call(p, o, "removeBy:hget")
  /\ UNCHANGED queues

\* getIndexedItemReference: the hget of the index hash; without an entry the
\* (empty) error becomes CollectionFieldInexistent, with one
\* removeItemInCollection of the id it holds is called.
removeByReference(p) ==
  /\ pc[p] = "removeBy:hget"
  /\ LET o == op[p]
         referencedId == hgetIndexed(toIndexedCollectionName(o.collection, o.byKey),
                                     String(o.keyVal))
     IN IF referencedId = << >>
        THEN /\ complete(p, o, Err("CollectionFieldInexistent"), loc[p])
             /\ UNCHANGED op
        ELSE /\ pc' = [pc EXCEPT ![p] = "remove:hmget"]
             /\ op' = [op EXCEPT ![p].id = referencedId]
             /\ UNCHANGED <<loc, res, locks>>
  /\ UNCHANGED <<items, index, indexes, fails, acq, wrote>>
  /\ UNCHANGED queues

\* ------------------------------------------- whole-collection operations

\* the ids of the model whose first character is '_'
UnderscoreIds == {"_2"}

\* k[0] !== '_': the fields of the hash getAllItemsInCollection keeps
notReserved(k) == k \notin UnderscoreIds

\* getAllItemsInCollection is called
getAllItemsInCollection(p, o) ==
  /\ o.name = "getAllItemsInCollection"
  /\ call(p, o, "getAll:hgetall")
  /\ UNCHANGED queues

\* hgetall of the collection hash: no hash, no item; else the records of the
\* fields kept are resolved, all in one resolveForeignItems.
hgetall(p) ==
  /\ pc[p] = "getAll:hgetall"
  /\ LET o == op[p]
         keys == SetToSeq({k \in DOMAIN items[o.collection] : notReserved(k)})
         itemsMetadata == [j \in 1..Len(keys) |-> items[o.collection][keys[j]]]
         l == [loc[p] EXCEPT !.levels = <<asLevel(o.collection, itemsMetadata)>>]
     IN IF hlen(items, index, o.collection) = 0
        THEN complete(p, o, Ok(<< >>), loc[p])
        ELSE resolveNext(p, l)
  /\ UNCHANGED <<items, index, indexes, queues, op, fails, acq, wrote>>

\* getCollectionIndex is called
getCollectionIndex(p, o) ==
  /\ o.name = "getCollectionIndex"
  /\ call(p, o, "getCollectionIndex:hget")
  /\ UNCHANGED queues

\* hget(_index): its number, 0 when the field is absent
hgetIndex(p) ==
  /\ pc[p] = "getCollectionIndex:hget"
  /\ complete(p, op[p], Ok(<< >>), [loc[p] EXCEPT !.index = index[op[p].collection]])
  /\ UNCHANGED <<items, index, indexes, queues, op, fails, acq, wrote>>

\* isItemInCollection is called
isItemInCollection(p, o) ==
  /\ o.name = "isItemInCollection"
  /\ call(p, o, "isItem:hmget")
  /\ UNCHANGED queues

\* getShallowItemsInCollectionWithMetadata of the id: true when it is
\* answered, false when it is not
isItemShallow(p) ==
  /\ pc[p] = "isItem:hmget"
  /\ LET reply == hget(op[p].collection, toCollectionId(op[p].collection, loc[p].ids[1]))
     IN complete(p, op[p], Ok(<<reply # << >> >>), [loc[p] EXCEPT !.hmgets = @ + 1])
  /\ UNCHANGED <<items, index, indexes, queues, op, fails, acq, wrote>>

\* isItemInCollectionBy is called
isItemInCollectionBy(p, o) ==
  /\ o.name = "isItemInCollectionBy"
  /\ call(p, o, "isItemBy:hget")
  /\ UNCHANGED queues

\* the hget of the index hash: without an entry false, with one
\* isItemInCollection of the id it holds
isItemReference(p) ==
  /\ pc[p] = "isItemBy:hget"
  /\ LET o == op[p]
         referencedId == hgetIndexed(toIndexedCollectionName(o.collection, o.byKey),
                                     String(o.keyVal))
     IN IF referencedId = << >>
        THEN complete(p, o, Ok(<<FALSE>>), loc[p])
        ELSE /\ pc' = [pc EXCEPT ![p] = "isItem:hmget"]
             /\ loc' = [loc EXCEPT ![p].ids = referencedId]
             /\ UNCHANGED <<res, locks>>
  /\ UNCHANGED <<items, index, indexes, queues, op, fails, acq, wrote>>

\* removeCollection is called
removeCollection(p, o) ==
  /\ o.name = "removeCollection"
  /\ call(p, o, "removeCollection:del")
  /\ UNCHANGED queues

\* a del that deletes nothing
delOfNothing(its, collection) == its

\* the hashes without the one deleted
delOf(its, collection) == [its EXCEPT ![collection] = Empty]

\* del of the collection hash: its records and its _index field
del(p) ==
  /\ pc[p] = "removeCollection:del"
  /\ items' = delOf(items, op[p].collection)
  /\ index' = [index EXCEPT ![op[p].collection] = 0]
  /\ wrote' = [wrote EXCEPT ![p] = TRUE]
  /\ complete(p, op[p], Ok(<< >>), loc[p])
  /\ UNCHANGED <<indexes, queues, op, fails, acq>>

\* del is rejected by the store: caught, CollectionDeletionFailure
delRejects(p) ==
  /\ pc[p] = "removeCollection:del"
  /\ fails < MaxFailures
  /\ fails' = fails + 1
  /\ complete(p, op[p], Err("CollectionDeletionFailure"), loc[p])
  /\ UNCHANGED <<items, index, indexes, queues, op, acq, wrote>>

\* flush is called: flushall is sent, and the promise returned is one that
\* nothing resolves
flush(p, o) ==
  /\ o.name = "flush"
  /\ pc[p] = "idle"
  /\ op' = [op EXCEPT ![p] = o]
  /\ pc' = [pc EXCEPT ![p] = "flush:pending"]
  /\ loc' = [loc EXCEPT ![p] = NoLoc]
  /\ res' = [res EXCEPT ![p] = NoRes]
  /\ wrote' = [wrote EXCEPT ![p] = TRUE]
  /\ acq' = SelectSeq(acq, LAMBDA q : q # p)
  /\ items' = [c \in DOMAIN items |-> Empty]
  /\ index' = [c \in DOMAIN index |-> 0]
  /\ indexes' = Empty
  /\ queues' = [n \in DOMAIN queues |-> << >>]
  /\ locks' = Empty
  /\ UNCHANGED fails

\* ------------------------------------------------------------- queues

\* enqueue is called
enqueue(p, o) ==
  /\ o.name = "enqueue"
  /\ Len(queues[toQueueName(o.q)]) < MaxQueue
  /\ call(p, o, "enqueue:rpush")
  /\ UNCHANGED queues

\* rpush of the item's stable text
rpush(p) ==
  /\ pc[p] = "enqueue:rpush"
  /\ queues' = [queues EXCEPT ![toQueueName(op[p].q)] =
                   Append(@, jsonStableStringify(op[p].item))]
  /\ complete(p, op[p], Ok(<< >>), loc[p])
  /\ UNCHANGED <<items, index, indexes, op, fails, acq, wrote>>

\* dequeue is called
dequeue(p, o) ==
  /\ o.name = "dequeue"
  /\ call(p, o, "dequeue:lpop")
  /\ UNCHANGED queues

\* lpop: the head of the list parsed, nothing when the list is empty
lpop(p) ==
  /\ pc[p] = "dequeue:lpop"
  /\ LET list == queues[toQueueName(op[p].q)]
     IN IF list = << >>
        THEN /\ complete(p, op[p], Ok(<< >>), loc[p])
             /\ UNCHANGED queues
        ELSE /\ complete(p, op[p], Ok(<<Head(list)>>), loc[p])
             /\ queues' = [queues EXCEPT ![toQueueName(op[p].q)] = Tail(list)]
  /\ UNCHANGED <<items, index, indexes, op, fails, acq, wrote>>

\* removeFromQueue is called
removeFromQueue(p, o) ==
  /\ o.name = "removeFromQueue"
  /\ call(p, o, "removeFromQueue:lrem")
  /\ UNCHANGED queues

\* lrem with count 0: every element equal to the item's stable text is removed
lrem(p) ==
  /\ pc[p] = "removeFromQueue:lrem"
  /\ LET list == queues[toQueueName(op[p].q)]
         text == jsonStableStringify(op[p].item)
         v == Cardinality({i \in 1..Len(list) : list[i] = text})
     IN /\ queues' = [queues EXCEPT ![toQueueName(op[p].q)] =
                         SelectSeq(list, LAMBDA x : x # text)]
        /\ complete(p, op[p], IF v > 0 THEN Ok(<< >>) ELSE Err("QueueItemNotFound"), loc[p])
  /\ UNCHANGED <<items, index, indexes, op, fails, acq, wrote>>

\* getQueueSize is called
getQueueSize(p, o) ==
  /\ o.name = "getQueueSize"
  /\ call(p, o, "getQueueSize:llen")
  /\ UNCHANGED queues

\* llen of the list
llen(p) ==
  /\ pc[p] = "getQueueSize:llen"
  /\ complete(p, op[p], Ok(<< >>),
              [loc[p] EXCEPT !.length = Len(queues[toQueueName(op[p].q)])])
  /\ UNCHANGED <<items, index, indexes, queues, op, fails, acq, wrote>>

\* The command of a queue operation is rejected by the store: the .catch of
\* the operation makes it GenericRedisFailure.
queueCommandRejects(p) ==
  /\ pc[p] \in {"enqueue:rpush", "dequeue:lpop", "removeFromQueue:lrem", "getQueueSize:llen"}
  /\ fails < MaxFailures
  /\ fails' = fails + 1
  /\ complete(p, op[p], Err("GenericRedisFailure"), loc[p])
  /\ UNCHANGED <<items, index, indexes, queues, op, acq, wrote>>

\* ------------------------------------------------ backing store failures

\* The command caller p is waiting for is rejected by the store: the pending
\* promise rejects. An update unlocks (.finally(unlock)); an add unlocks only
\* when the rejected command is one of its follow-up read.
storeRejects(p) ==
  /\ pc[p] \in {"add:hget", "add:execMulti", "update:hmget", "update:execMulti",
                "get:hmget", "get:execMulti", "getBy:hget", "removeBy:hget",
                "getAll:hgetall", "getCollectionIndex:hget", "isItem:hmget", "isItemBy:hget",
                "remove:hmget", "remove:execMulti", "remove:indexes"}
  /\ fails < MaxFailures
  /\ fails' = fails + 1
  /\ pc' = [pc EXCEPT ![p] = "idle"]
  /\ res' = [res EXCEPT ![p] = [NoRes EXCEPT !.kind = "Throw", !.err = "StoreError"]]
  /\ locks' = IF pc[p] \in {"add:hget", "add:execMulti"} THEN locks
              ELSE unlocked(lockOf(op[p]))
  /\ UNCHANGED <<items, index, indexes, op, loc, acq, wrote>>
  /\ UNCHANGED queues

\* what every operation returned if a null batch were the add's
batchFailureOfAdd(step) == Err("CollectionFieldInexistent")

\* What the operation returns when the execMulti of its step answers null: the
\* error of the add, of the update, of the removal; the reply of the removal's
\* index batch is not looked at.
batchFailure(step) ==
  CASE step = "add:execMulti" -> Err("CollectionFieldInexistent")
    [] step = "update:execMulti" -> Err("CollectionUpdateFailure")
    [] step = "remove:execMulti" -> Err("CollectionDeletionFailure")
    [] OTHER -> Ok(<< >>)

\* execMulti of a write batch answers null: nothing is applied. The add
\* unlocks and returns CollectionFieldInexistent, the update returns
\* CollectionUpdateFailure (and unlocks), the removal returns
\* CollectionDeletionFailure, or Ok when the batch is the one of its indexes.
execMultiNull(p) ==
  /\ pc[p] \in {"add:execMulti", "update:execMulti", "remove:execMulti", "remove:indexes"}
  /\ fails < MaxFailures
  /\ fails' = fails + 1
  /\ complete(p, op[p], batchFailure(pc[p]), loc[p])
  /\ UNCHANGED <<items, index, indexes, op, acq, wrote>>
  /\ UNCHANGED queues

\* ------------------------------------------------------ specifications

\* No call has been made: no lock is held and every caller is idle.
callersIdle ==
  /\ locks = Empty
  /\ pc = [p \in Procs |-> "idle"]
  /\ op = [p \in Procs |-> NoOp]
  /\ loc = [p \in Procs |-> NoLoc]
  /\ res = [p \in Procs |-> NoRes]
  /\ fails = 0
  /\ acq = << >>
  /\ wrote = [p \in Procs |-> FALSE]

\* The state after construction: an empty store, every caller idle.
Init ==
  /\ items = [c \in Collections |-> Empty]
  /\ index = [c \in Collections |-> 0]
  /\ indexes = Empty
  /\ queues = [n \in {toQueueName(q) : q \in Queues} |-> << >>]
  /\ callersIdle

\* --- one caller working on a collection with a secondary index

\* the values the indexed field takes
IndexedValues == {Str("u1"), Str("0"), Num("0")}

IndexOps ==
  {[NoOp EXCEPT !.name = "addItemToCollection", !.collection = "guests", !.id = id,
                !.val = [k \in {"createdBy"} |-> v], !.indexBy = by] :
      id \in {<<i>> : i \in Ids}, v \in IndexedValues, by \in {<< >>, <<"createdBy">>}}
  \cup
  {[NoOp EXCEPT !.name = "updateItemInCollection", !.collection = "guests", !.id = <<i>>,
                !.itemModelGetter = [NoGetter EXCEPT !.props = [k \in {"createdBy"} |-> v]]] :
      i \in Ids, v \in IndexedValues}
  \cup
  {[NoOp EXCEPT !.name = "removeItemInCollection", !.collection = "guests", !.id = <<i>>] :
      i \in Ids}
  \cup
  {[NoOp EXCEPT !.name = "getItemInCollectionBy", !.collection = "guests",
                !.byKey = "createdBy", !.keyVal = v] : v \in IndexedValues}
  \cup
  {[NoOp EXCEPT !.name = "removeItemInCollectionBy", !.collection = "guests",
                !.byKey = "createdBy", !.keyVal = v] : v \in IndexedValues}
  \cup
  {[NoOp EXCEPT !.name = "getItemInCollection", !.collection = "guests", !.ids = <<i>>] :
      i \in Ids}

NextIndex ==
  \E p \in {1} :
    \/ \E o \in IndexOps : addItemToCollection(p, o)
    \/ \E o \in IndexOps : updateItemInCollection(p, o)
    \/ \E o \in IndexOps : removeItemInCollection(p, o)
    \/ \E o \in IndexOps : getItemInCollectionBy(p, o)
    \/ \E o \in IndexOps : removeItemInCollectionBy(p, o)
    \/ \E o \in IndexOps : getItemsInCollection(p, o)
    \/ removeByReference(p)
    \/ addLock(p)
    \/ addExecMulti(p)
    \/ updateLock(p)
    \/ updateRead(p)
    \/ updateExecMulti(p)
    \/ removeRead(p)
    \/ removeExecMulti(p)
    \/ removeIndexes(p)
    \/ getIndexedReference(p)
    \/ getShallowItems(p)

SpecIndex == Init /\ [][NextIndex]_vars

\* --- callers updating one record at the same time, the store failing at most
\* --- MaxFailures times

\* the record the collection holds at the start, as an add stored it
seededItem ==
  JsonRoundTrip(addedItem([NoOp EXCEPT !.name = "addItemToCollection", !.collection = "guests",
                                       !.val = [k \in {"subscribers"} |-> IdMap({})]], "1"))

\* The state after addItemToCollection('guests', {subscribers: {}}) on an
\* empty store.
InitUpdates ==
  /\ items = hsetItem([c \in Collections |-> Empty], "guests",
                      toCollectionId("guests", "1"), seededItem)
  /\ index = [c \in Collections |-> IF c = "guests" THEN 1 ELSE 0]
  /\ indexes = Empty
  /\ queues = [n \in {toQueueName(q) : q \in Queues} |-> << >>]
  /\ callersIdle

\* a foreignKeys declaration the seeded record does not have
otherForeignKeys == <<[k |-> "user", type |-> "oneToOne", collection |-> "peers"]>>

\* The updates caller p makes: of the present record "1" with a function adding
\* p to its subscribers, with a plain value, with a failing or throwing
\* function or with other foreign keys, and of the absent record "2".
UpdateOps(p) ==
  LET update == [NoOp EXCEPT !.name = "updateItemInCollection", !.collection = "guests",
                             !.id = <<"1">>,
                             !.itemModelGetter = [NoGetter EXCEPT !.kind = "fn",
                                                                  !.add = DecimalString(p)]]
  IN {update,
      [update EXCEPT !.itemModelGetter =
          [NoGetter EXCEPT !.props = [k \in {"name", "id"} |-> Str(DecimalString(p))]]],
      [update EXCEPT !.itemModelGetter = [NoGetter EXCEPT !.kind = "asyncErr"]],
      [update EXCEPT !.itemModelGetter = [NoGetter EXCEPT !.kind = "throws"]],
      [update EXCEPT !.foreignKeys = otherForeignKeys],
      [update EXCEPT !.id = <<"2">>]}

\* each caller makes one update
NextUpdates ==
  \E p \in Procs :
    \/ \E o \in UpdateOps(p) : res[p].kind = "none" /\ updateItemInCollection(p, o)
    \/ updateLock(p)
    \/ updateRead(p)
    \/ updateExecMulti(p)
    \/ getShallowItems(p)
    \/ storeRejects(p)
    \/ execMultiNull(p)

SpecUpdates == InitUpdates /\ [][NextUpdates]_vars

\* --- callers adding to one collection at the same time, the store failing at
\* --- most MaxFailures times

\* a oneToOne foreign key: the field `user` holds the id of a record of peers
userOfPeers == <<[k |-> "user", type |-> "oneToOne", collection |-> "peers"]>>

\* The adds caller p makes to guests: without an id, with the id "2", and
\* without an id but referring to a peer that does not exist.
AddOps(p) ==
  LET add == [NoOp EXCEPT !.name = "addItemToCollection", !.collection = "guests",
                          !.val = [k \in {"name"} |-> Str(DecimalString(p))]]
  IN {add,
      [add EXCEPT !.id = <<"2">>],
      [add EXCEPT !.val = [k \in {"name", "user"} |->
                             IF k = "user" THEN Str("9") ELSE Str(DecimalString(p))],
                  !.foreignKeys = userOfPeers]}

\* each caller makes one add
NextAdds ==
  \E p \in Procs :
    \/ \E o \in AddOps(p) : res[p].kind = "none" /\ addItemToCollection(p, o)
    \/ addLock(p)
    \/ addResolveId(p)
    \/ addExecMulti(p)
    \/ getShallowItems(p)
    \/ resolveForeignItems(p)
    \/ storeRejects(p)
    \/ execMultiNull(p)

SpecAdds == Init /\ [][NextAdds]_vars

\* --- one caller adding records that refer to one another and reading them

\* the foreign keys of a record of peers: its best friend, a peer
bestOfPeers == <<[k |-> "best", type |-> "oneToOne", collection |-> "peers"]>>

\* the foreign keys of a record of guests: friends, a set of peers, alone or
\* after user, a peer
friendsOfPeers == <<[k |-> "friends", type |-> "oneToMany", collection |-> "peers"]>>

\* The adds of the caller: peers with a plain value, with or without an id,
\* with a value that has an undefined property or a NaN, and with a best
\* friend; guests without foreign keys, with a user, with friends, with both.
ReadAdds ==
  LET peer == [NoOp EXCEPT !.name = "addItemToCollection", !.collection = "peers",
                           !.val = [k \in {"name"} |-> Str("p")]]
      guest == [NoOp EXCEPT !.name = "addItemToCollection", !.collection = "guests",
                            !.val = [k \in {"name"} |-> Str("g")]]
  IN {[peer EXCEPT !.id = id] : id \in {<< >>} \cup {<<i>> : i \in Ids}}
     \cup
     {[peer EXCEPT !.id = <<"1">>, !.val = v] :
         v \in {[k \in {"name", "gameOffer"} |-> IF k = "name" THEN Str("p") ELSE Undefined],
                [k \in {"name", "score"} |-> IF k = "name" THEN Str("p") ELSE NaN]}}
     \cup
     {[peer EXCEPT !.id = <<ib[1]>>, !.foreignKeys = bestOfPeers,
                   !.val = [k \in {"name", "best"} |-> Str(IF k = "name" THEN "p" ELSE ib[2])]] :
         ib \in {<<"1", "2">>, <<"2", "1">>, <<"1", "1">>}}
     \cup
     {[guest EXCEPT !.id = <<i>>] : i \in Ids}
     \cup
     {[guest EXCEPT !.id = <<i>>, !.foreignKeys = userOfPeers,
                    !.val = [k \in {"name", "user"} |-> Str(IF k = "name" THEN "g" ELSE "1")]] :
         i \in Ids}
     \cup
     {[guest EXCEPT !.id = <<i>>, !.foreignKeys = friendsOfPeers,
                    !.val = [k \in {"name", "friends"} |->
                               IF k = "name" THEN Str("g") ELSE IdMap(fs)]] :
         i \in Ids, fs \in {{}, Ids}}
     \cup
     {[guest EXCEPT !.id = <<"1">>, !.foreignKeys = userOfPeers \o friendsOfPeers,
                    !.val = [k \in {"name", "user", "friends"} |->
                               CASE k = "name" -> Str("g")
                                 [] k = "user" -> Str("1")
                                 [] OTHER -> IdMap(fs)]] :
         fs \in {{}, {"2"}}}

\* The reads of the caller
ReadGets ==
  {[NoOp EXCEPT !.name = "getItemInCollection", !.collection = c, !.ids = <<i>>] :
      c \in Collections, i \in Ids}
  \cup
  {[NoOp EXCEPT !.name = "getItemsInCollection", !.collection = "guests", !.ids = ids] :
      ids \in {<< >>, <<"1", "2">>, <<"2", "1">>}}

NextReads ==
  \E p \in {1} :
    \/ \E o \in ReadAdds : addItemToCollection(p, o)
    \/ \E o \in ReadGets : getItemsInCollection(p, o)
    \/ addLock(p)
    \/ addResolveId(p)
    \/ addExecMulti(p)
    \/ getShallowItems(p)
    \/ resolveForeignItems(p)

SpecReads == Init /\ [][NextReads]_vars

\* --- one caller working on a queue, the store failing at most MaxFailures
\* --- times

\* a property holding a value, a property holding an object
valued(k, v) == [k |-> k, t |-> "val", v |-> v]
nested(k, node) == [k |-> k, t |-> "obj", v |-> node]

\* The items of the caller: one written in two orders of its keys, at both
\* levels, one with another value, one with a property that is undefined.
QueueItems ==
  {<<valued("challengeId", Str("qp1")),
     nested("nestedKey", <<valued("simpleNummberKey", Num("2")),
                           valued("challengeId", Str("qp1"))>>)>>,
   <<nested("nestedKey", <<valued("challengeId", Str("qp1")),
                           valued("simpleNummberKey", Num("2"))>>),
     valued("challengeId", Str("qp1"))>>,
   <<valued("challengeId", Str("qp2"))>>,
   <<valued("simpleNummberKey", Undefined), valued("challengeId", Str("qp2"))>>}

QueueOps ==
  {[NoOp EXCEPT !.name = n, !.q = "quickPairings", !.item = x] :
      n \in {"enqueue", "removeFromQueue"}, x \in QueueItems}
  \cup
  {[NoOp EXCEPT !.name = n, !.q = "quickPairings"] : n \in {"dequeue", "getQueueSize"}}

NextQueues ==
  \E p \in {1} :
    \/ \E o \in QueueOps : enqueue(p, o)
    \/ \E o \in QueueOps : dequeue(p, o)
    \/ \E o \in QueueOps : removeFromQueue(p, o)
    \/ \E o \in QueueOps : getQueueSize(p, o)
    \/ rpush(p)
    \/ lpop(p)
    \/ lrem(p)
    \/ llen(p)
    \/ queueCommandRejects(p)

SpecQueues == Init /\ [][NextQueues]_vars

\* --- one caller adding to, reading and removing whole collections, the
\* --- store failing at most MaxFailures times

\* The adds of the caller: a peer without an id; guests "1" and "2" of a user,
\* the peer "1", indexed by their (same) name; the guests "_2" and "1" without
\* foreign keys and not indexed. The other operations are on both collections, the lookups of the
\* guests "1" and "_2" and by the names "g" and "h".
LifecycleOps ==
  {[NoOp EXCEPT !.name = "addItemToCollection", !.collection = "peers",
                !.val = [k \in {"name"} |-> Str("p")]]}
  \cup
  {[NoOp EXCEPT !.name = "addItemToCollection", !.collection = "guests", !.id = <<i>>,
                !.val = [k \in {"name"} |-> Str("h")]] : i \in {"_2", "1"}}
  \cup
  {[NoOp EXCEPT !.name = "addItemToCollection", !.collection = "guests", !.id = <<i>>,
                !.foreignKeys = userOfPeers, !.indexBy = <<"name">>,
                !.val = [k \in {"name", "user"} |-> Str(IF k = "name" THEN "g" ELSE "1")]] :
      i \in Ids}
  \cup
  {[NoOp EXCEPT !.name = n, !.collection = c] :
      n \in {"removeCollection", "getAllItemsInCollection", "getCollectionIndex"},
      c \in Collections}
  \cup
  {[NoOp EXCEPT !.name = n, !.collection = "guests", !.ids = <<i>>] :
      n \in {"isItemInCollection", "getItemInCollection"}, i \in {"1", "_2"}}
  \cup
  {[NoOp EXCEPT !.name = "getItemInCollection", !.collection = "peers", !.ids = <<"1">>]}
  \cup
  {[NoOp EXCEPT !.name = n, !.collection = "guests", !.byKey = "name", !.keyVal = Str(v)] :
      n \in {"isItemInCollectionBy", "getItemInCollectionBy"}, v \in {"g", "h"}}
  \cup
  {[NoOp EXCEPT !.name = "flush"]}

NextLifecycle ==
  \E p \in {1} :
    \/ \E o \in LifecycleOps : addItemToCollection(p, o)
    \/ \E o \in LifecycleOps : removeCollection(p, o)
    \/ \E o \in LifecycleOps : getAllItemsInCollection(p, o)
    \/ \E o \in LifecycleOps : getCollectionIndex(p, o)
    \/ \E o \in LifecycleOps : isItemInCollection(p, o)
    \/ \E o \in LifecycleOps : isItemInCollectionBy(p, o)
    \/ \E o \in LifecycleOps : getItemsInCollection(p, o)
    \/ \E o \in LifecycleOps : getItemInCollectionBy(p, o)
    \/ \E o \in LifecycleOps : flush(p, o)
    \/ addLock(p)
    \/ addResolveId(p)
    \/ addExecMulti(p)
    \/ getShallowItems(p)
    \/ resolveForeignItems(p)
    \/ getIndexedReference(p)
    \/ hgetall(p)
    \/ hgetIndex(p)
    \/ isItemShallow(p)
    \/ isItemReference(p)
    \/ del(p)
    \/ delRejects(p)
    \/ storeRejects(p)

SpecLifecycle == Init /\ [][NextLifecycle]_vars

\* --- callers updating the seeded record and adding to its collection at the
\* --- same time

\* The calls caller p makes: an update of the record "1" with a function
\* adding p to its subscribers, with a plain value or with a failing function,
\* an update of the absent record "2", and an add to guests with the id "1" or
\* without an id, or to peers.
UpdateAddOps(p) ==
  LET update == [NoOp EXCEPT !.name = "updateItemInCollection", !.collection = "guests",
                             !.id = <<"1">>,
                             !.itemModelGetter = [NoGetter EXCEPT !.kind = "fn",
                                                                  !.add = DecimalString(p)]]
      add == [NoOp EXCEPT !.name = "addItemToCollection", !.collection = "guests",
                          !.val = [k \in {"name"} |-> Str(DecimalString(p))]]
  IN {update,
      [update EXCEPT !.itemModelGetter =
          [NoGetter EXCEPT !.props = [k \in {"name"} |-> Str(DecimalString(p))]]],
      [update EXCEPT !.itemModelGetter = [NoGetter EXCEPT !.kind = "asyncErr"]],
      [update EXCEPT !.id = <<"2">>],
      add,
      [add EXCEPT !.id = <<"1">>],
      [add EXCEPT !.collection = "peers"]}

\* each caller makes one update or one add
NextUpdateAdd ==
  \E p \in Procs :
    \/ \E o \in UpdateAddOps(p) : res[p].kind = "none" /\ updateItemInCollection(p, o)
    \/ \E o \in UpdateAddOps(p) : res[p].kind = "none" /\ addItemToCollection(p, o)
    \/ updateLock(p)
    \/ updateRead(p)
    \/ updateExecMulti(p)
    \/ addLock(p)
    \/ addResolveId(p)
    \/ addExecMulti(p)
    \/ getShallowItems(p)
    \/ storeRejects(p)
    \/ execMultiNull(p)

SpecUpdateAdd == InitUpdates /\ [][NextUpdateAdd]_vars

\* --- one caller adding, updating and removing indexed records, the write
\* --- batches failing at most MaxFailures times

\* The calls of the caller: adds to guests indexed by createdBy, updates of
\* createdBy, removals.
BatchOps ==
  {[NoOp EXCEPT !.name = "addItemToCollection", !.collection = "guests", !.id = <<i>>,
                !.val = [k \in {"createdBy"} |-> Str("u1")], !.indexBy = <<"createdBy">>] :
      i \in Ids}
  \cup
  {[NoOp EXCEPT !.name = "updateItemInCollection", !.collection = "guests", !.id = <<i>>,
                !.itemModelGetter = [NoGetter EXCEPT !.props = [k \in {"createdBy"} |-> Str("u2")]]] :
      i \in Ids}
  \cup
  {[NoOp EXCEPT !.name = "removeItemInCollection", !.collection = "guests", !.id = <<i>>] :
      i \in Ids}

NextBatches ==
  \E p \in {1} :
    \/ \E o \in BatchOps : addItemToCollection(p, o)
    \/ \E o \in BatchOps : updateItemInCollection(p, o)
    \/ \E o \in BatchOps : removeItemInCollection(p, o)
    \/ addLock(p)
    \/ addExecMulti(p)
    \/ updateLock(p)
    \/ updateRead(p)
    \/ updateExecMulti(p)
    \/ removeRead(p)
    \/ removeExecMulti(p)
    \/ removeIndexes(p)
    \/ getShallowItems(p)
    \/ execMultiNull(p)

SpecBatches == Init /\ [][NextBatches]_vars

\* --- callers updating, removing and looking up one indexed record at the
\* --- same time

\* the add that stored the record the collection holds at the start
indexedAdd ==
  [NoOp EXCEPT !.name = "addItemToCollection", !.collection = "guests", !.id = <<"1">>,
               !.val = [k \in {"createdBy"} |-> Str("u1")], !.indexBy = <<"createdBy">>]

\* The state after addItemToCollection('guests', {createdBy: 'u1'}, '1',
\* {indexBy: ['createdBy']}) on an empty store.
InitIndexed ==
  /\ items = hsetItem([c \in Collections |-> Empty], "guests",
                      toCollectionId("guests", "1"),
                      JsonRoundTrip(addedItem(indexedAdd, "1")))
  /\ index = [c \in Collections |-> IF c = "guests" THEN 1 ELSE 0]
  /\ indexes = addIndexed(Empty, indexedAdd, "1", 1)
  /\ queues = [n \in {toQueueName(q) : q \in Queues} |-> << >>]
  /\ callersIdle

\* The calls a caller makes: the update of createdBy to 'u2', the removal of
\* the record, the lookup by createdBy of 'u1' or 'u2'.
RaceOps ==
  {[NoOp EXCEPT !.name = "updateItemInCollection", !.collection = "guests", !.id = <<"1">>,
                !.itemModelGetter = [NoGetter EXCEPT !.props = [k \in {"createdBy"} |-> Str("u2")]]],
   [NoOp EXCEPT !.name = "removeItemInCollection", !.collection = "guests", !.id = <<"1">>]}
  \cup
  {[NoOp EXCEPT !.name = "getItemInCollectionBy", !.collection = "guests",
                !.byKey = "createdBy", !.keyVal = v] : v \in {Str("u1"), Str("u2")}}

\* each caller makes one call
NextRaces ==
  \E p \in Procs :
    \/ \E o \in RaceOps : res[p].kind = "none" /\ updateItemInCollection(p, o)
    \/ \E o \in RaceOps : res[p].kind = "none" /\ removeItemInCollection(p, o)
    \/ \E o \in RaceOps : res[p].kind = "none" /\ getItemInCollectionBy(p, o)
    \/ updateLock(p)
    \/ updateRead(p)
    \/ updateExecMulti(p)
    \/ removeRead(p)
    \/ removeExecMulti(p)
    \/ removeIndexes(p)
    \/ getIndexedReference(p)
    \/ getShallowItems(p)

SpecRaces == InitIndexed /\ [][NextRaces]_vars

\* --- two Store instances with different namespaces on one backing store

\* the namespaces the instances are configured with
Namespaces == <<"a", "b">>

\* the instance caller p uses
configOf(p) == Namespaces[((p - 1) % Len(Namespaces)) + 1]

\* the hashes the instances keep their collections in
NamespacedCollections ==
  {toNamespacedCollection(Namespaces[i], c) : i \in 1..Len(Namespaces), c \in Collections}

\* The state after the construction of the instances: an empty store.
InitNamespaces ==
  /\ items = [c \in NamespacedCollections |-> Empty]
  /\ index = [c \in NamespacedCollections |-> 0]
  /\ indexes = Empty
  /\ queues = [n \in {toQueueName(q) : q \in Queues} |-> << >>]
  /\ callersIdle

\* The calls caller p makes through its instance: an add to guests, a read of
\* the record "1", and the queue operations on quickPairings.
NamespaceOps(p) ==
  LET guests == toNamespacedCollection(configOf(p), "guests")
      item == <<valued("challengeId", Str("qp" \o DecimalString(p)))>>
  IN {[NoOp EXCEPT !.name = "addItemToCollection", !.collection = guests,
                   !.val = [k \in {"name"} |-> Str(DecimalString(p))]],
      [NoOp EXCEPT !.name = "getItemInCollection", !.collection = guests, !.ids = <<"1">>],
      [NoOp EXCEPT !.name = "enqueue", !.q = "quickPairings", !.item = item],
      [NoOp EXCEPT !.name = "removeFromQueue", !.q = "quickPairings", !.item = item],
      [NoOp EXCEPT !.name = "dequeue", !.q = "quickPairings"],
      [NoOp EXCEPT !.name = "getQueueSize", !.q = "quickPairings"]}

NextNamespaces ==
  \E p \in Procs :
    \/ \E o \in NamespaceOps(p) : addItemToCollection(p, o)
    \/ \E o \in NamespaceOps(p) : getItemsInCollection(p, o)
    \/ \E o \in NamespaceOps(p) : enqueue(p, o)
    \/ \E o \in NamespaceOps(p) : dequeue(p, o)
    \/ \E o \in NamespaceOps(p) : removeFromQueue(p, o)
    \/ \E o \in NamespaceOps(p) : getQueueSize(p, o)
    \/ addLock(p)
    \/ addResolveId(p)
    \/ addExecMulti(p)
    \/ getShallowItems(p)
    \/ rpush(p)
    \/ lpop(p)
    \/ lrem(p)
    \/ llen(p)

SpecNamespaces == InitNamespaces /\ [][NextNamespaces]_vars

\* ----------------------------------------------------------------- claims

\* caller p has completed a call of the operation named name
completed(p, name) == pc[p] = "idle" /\ op[p].name = name /\ res[p].kind # "none"

\* the ids of the present records of a collection whose field f is now v
holders(collection, f, v) ==
  {id \in DOMAIN items[collection] :
     String(prop(items[collection][id].val, f)) = String(v)}

\* C1: after any sequence of adds, updates and removes, getItemInCollectionBy(c,
\* f, v) returns a record only if it is present and its current value of f is
\* v, returns r for every present record r indexed by f whose value is v, and
\* returns CollectionFieldInexistent for a value no present record holds.
C1_IndexLookupIsCurrent ==
  \A p \in Procs : completed(p, "getItemInCollectionBy") =>
    LET o == op[p]
        hs == holders(o.collection, o.byKey, o.keyVal)
        indexed == {id \in hs : toIndexedCollectionName(o.collection, o.byKey)
                                   \in DOMAIN items[o.collection][id].indexedIn}
    IN /\ res[p].kind = "Ok" => res[p].value[1].id \in hs
       /\ \A id \in indexed : res[p].kind = "Ok" /\ res[p].value[1].id = id
       /\ hs = {} => res[p].kind = "Err" /\ res[p].err = "CollectionFieldInexistent"

\* caller p is between the acquisition and the release of its item lock
inUpdate(p) ==
  /\ op[p].name = "updateItemInCollection"
  /\ pc[p] \in {"update:hmget", "update:execMulti", "get:hmget", "get:execMulti"}

\* the value after the updates of the callers of a sequence that wrote theirs,
\* applied one after the other to val
RECURSIVE sequentially(_, _)
sequentially(callers, val) ==
  IF callers = << >> THEN val
  ELSE sequentially(Tail(callers),
         IF wrote[Head(callers)]
         THEN JsonObject(nextItemOf(op[Head(callers)].itemModelGetter, val))
         ELSE val)

\* C2: updates of the same (collection, id) exclude one another, and the stored
\* value is the one their application one after the other, in the order of the
\* acquisitions of the lock, gives: no update is lost.
C2_UpdatesSerialized ==
  /\ \A p, q \in Procs :
       (p # q /\ inUpdate(p) /\ inUpdate(q)) =>
          <<op[p].collection, op[p].id>> # <<op[q].collection, op[q].id>>
  /\ items["guests"]["1"].val =
       sequentially(SelectSeq(acq, LAMBDA p : op[p].id = <<"1">>), seededItem.val)

\* two callers have updated the record and both are done
C2_TwoUpdatesApplied ==
  /\ \A p \in Procs : pc[p] = "idle"
  /\ Cardinality({p \in Procs : wrote[p] /\ op[p].itemModelGetter.kind = "fn"}) >= 2

\* C4: updateItemInCollection has released the item lock it took when it
\* returns, whatever the exit: Ok, CollectionFieldInexistent, mismatching
\* foreign keys, a failing update function, a failed batch or a store error.
C4_UpdateReleasesItemLock ==
  \A p \in Procs : completed(p, "updateItemInCollection") =>
     \A r \in DOMAIN locks : locks[r] # p

\* an update that had taken the lock ended by a store error, another by an
\* Err value
C4_UpdateFailedAfterLock ==
  \E p, q \in Procs :
     /\ completed(p, "updateItemInCollection") /\ res[p].kind = "Throw"
     /\ res[p].err = "StoreError"
     /\ completed(q, "updateItemInCollection") /\ res[q].kind = "Err"
     /\ \E i, j \in 1..Len(acq) : acq[i] = p /\ acq[j] = q

\* caller p is between the acquisition and the release of its collection lock
inAdd(p) ==
  /\ op[p].name = "addItemToCollection"
  /\ pc[p] \in {"add:hget", "add:execMulti", "get:hmget", "get:execMulti"}

\* the callers whose add has returned Ok
addedOk == {p \in Procs : completed(p, "addItemToCollection") /\ res[p].kind = "Ok"}

\* C3: adds to the same collection exclude one another from the resolution of
\* the id to the end of the follow-up read; once all are done every added item
\* is present, no add has overwritten another and _index is the number of the
\* adds that succeeded.
C3_AddsSerialized ==
  /\ \A p, q \in Procs :
       (p # q /\ inAdd(p) /\ inAdd(q)) => op[p].collection # op[q].collection
  /\ (\A p \in Procs : pc[p] = "idle") =>
       /\ \A p \in addedOk :
            /\ res[p].value[1].id \in DOMAIN items["guests"]
            /\ items["guests"][res[p].value[1].id].val = JsonObject(op[p].val)
       /\ \A p, q \in addedOk : p # q => res[p].value[1].id # res[q].value[1].id
       /\ index["guests"] = Cardinality(addedOk)

\* C5: addItemToCollection has released the collection lock it took when it
\* has completed, whatever the exit: a failed read of _index, a write batch
\* answered by null or by an error, a failed follow-up read.
C5_AddReleasesCollectionLock ==
  \A p \in Procs : completed(p, "addItemToCollection") =>
     \A r \in DOMAIN locks : locks[r] # p

\* ---- what the store holds, read off the hashes directly

present(collection, id) == id \in DOMAIN items[collection]

\* the foreign references <<collection, id>> of the stored record
referencesOf(collection, id) ==
  LET md == items[collection][id]
  IN UNION {{<<md.foreignKeys[i].collection, fid>> : fid \in foreignIds(md, md.foreignKeys[i])} :
              i \in 1..Len(md.foreignKeys)}

\* the record is present and so is every record it refers to, at every depth,
\* the references being at most n deep
RECURSIVE closed(_, _, _)
closed(collection, id, n) ==
  /\ present(collection, id)
  /\ \A r \in referencesOf(collection, id) : n > 0 /\ closed(r[1], r[2], n - 1)

\* the record is present and refers, at some depth, to an absent record
RECURSIVE dangling(_, _, _)
dangling(collection, id, n) ==
  /\ present(collection, id)
  /\ \E r \in referencesOf(collection, id) :
        n > 0 /\ (~present(r[1], r[2]) \/ dangling(r[1], r[2], n - 1))

\* the record as its description says a get returns it: its value without the
\* foreign-key fields, and per foreign-key field the records it refers to (an
\* empty id set stays the value {} it is)
RECURSIVE hydrated(_, _, _)
hydrated(collection, id, n) ==
  LET md == items[collection][id]
      fks == md.foreignKeys
      field(k) == fks[CHOOSE i \in 1..Len(fks) : fks[i].k = k]
      replaced == {fks[i].k : i \in {x \in 1..Len(fks) : foreignIds(md, fks[x]) # {}}}
      ofType(type) ==
        [k \in {x \in replaced : field(x).type = type} |->
           [fid \in foreignIds(md, field(k)) |-> hydrated(field(k).collection, fid, n - 1)]]
  IN [id |-> md.id,
      val |-> [k \in DOMAIN md.val \ (replaced \cup {"id"}) |-> md.val[k]],
      oneToOne |-> ofType("oneToOne"),
      oneToMany |-> ofType("oneToMany")]

\* the depth of the foreign-key graph under a set of references: the number of
\* levels that refer to some record
RECURSIVE depth(_, _)
depth(refs, n) ==
  LET next == UNION {referencesOf(r[1], r[2]) : r \in refs}
  IN IF next = {} \/ n = 0 THEN 0 ELSE 1 + depth(next, n - 1)

\* caller p has completed a getItemInCollection or a getItemsInCollection
hasRead(p) ==
  completed(p, "getItemInCollection") \/ completed(p, "getItemsInCollection")

requested(p) == {op[p].ids[j] : j \in 1..Len(op[p].ids)}

\* the result is Ok with one record per requested id, in the order of ids
oneRecordPerId(p) ==
  /\ res[p].kind = "Ok"
  /\ Len(res[p].value) = Len(op[p].ids)
  /\ \A j \in 1..Len(op[p].ids) : res[p].value[j].id = op[p].ids[j]

C7_DanglingReferenceFails ==
  \A p \in Procs :
     (/\ hasRead(p)
      /\ \A id \in requested(p) : present(op[p].collection, id)
      /\ \E id \in requested(p) : dangling(op[p].collection, id, MaxFuel))
     => res[p].kind = "Err" /\ res[p].err = "CollectionFieldInexistent"

\* C8: a get of records whose references all exist returns, per record, its
\* value and id with every oneToOne field replaced by the record referred to
\* and every oneToMany field by the records of its id set, keyed by id, each
\* hydrated the same way, for every combination of foreign-key fields.
C8_HydrationFidelity ==
  \A p \in Procs :
     (hasRead(p) /\ \A id \in requested(p) : closed(op[p].collection, id, MaxFuel))
     => /\ res[p].kind = "Ok"
        /\ res[p].value = [j \in 1..Len(op[p].ids) |->
                             hydrated(op[p].collection, op[p].ids[j], MaxFuel)]

\* C9: a getItemInCollection / getItemsInCollection over records whose
\* foreign-key graph has depth D makes exactly one hmget and exactly D
\* execMulti batches.
C9_OneBatchPerLevel ==
  \A p \in Procs :
     (hasRead(p) /\ \A id \in requested(p) : closed(op[p].collection, id, MaxFuel))
     => /\ res[p].hmgets = 1
        /\ res[p].batches = depth({<<op[p].collection, id>> : id \in requested(p)}, MaxFuel)

\* a value JSON represents: no property is undefined or NaN
representable(val) == \A k \in DOMAIN val : val[k].t \notin {"undef", "nan"}

\* Caller p has completed the getItemInCollection(c, id) it made right after
\* its successful add, without foreign keys, of a value to c under the id the
\* add was given or assigned.
gotJustAdded(p) ==
  /\ completed(p, "getItemInCollection")
  /\ loc[p].after # << >>
  /\ LET a == loc[p].after[1]
     IN /\ a.res.kind = "Ok"
        /\ a.op.foreignKeys = << >>
        /\ op[p].collection = a.op.collection
        /\ op[p].ids = <<a.res.value[1].id>>

\* the get returns the added value plus the id, and so did the add
sameAsAdded(p) ==
  LET a == loc[p].after[1]
  IN /\ res[p].kind = "Ok"
     /\ res[p].value = <<[id |-> a.res.value[1].id, val |-> a.op.val,
                          oneToOne |-> Empty, oneToMany |-> Empty]>>
     /\ a.res.value = res[p].value
     /\ idGiven(a.op) => a.res.value[1].id = a.op.id[1]

\* C10 as stated: for every value V without foreign keys and every id, the get
\* right after a successful add returns exactly V plus the assigned id, and
\* the add returned the same item.
C10_RoundTripOfAnyValue ==
  \A p \in Procs : gotJustAdded(p) => sameAsAdded(p)

\* C10: for every value V without foreign keys that JSON represents (no
\* undefined or NaN property) and every id, the get right after a successful
\* add returns exactly V plus the assigned id, and the add returned the same
\* item.
C10_RoundTrip ==
  \A p \in Procs :
     (gotJustAdded(p) /\ representable(loc[p].after[1].op.val)) => sameAsAdded(p)

\* a record added without an id has been read back under the id it was assigned
C10_ReadBackAssignedId ==
  \E p \in Procs :
     /\ gotJustAdded(p)
     /\ representable(loc[p].after[1].op.val)
     /\ loc[p].after[1].op.id = << >>
     /\ res[p].kind = "Ok"

\* the place of caller p in the order the lock was taken
acquiredAt(p) == CHOOSE i \in 1..Len(acq) : acq[i] = p

\* C11: in a collection where every add omits the id, the k-th successful add
\* is assigned the id String(k), starting at '1', also when the adds are made
\* at the same time.
C11_AutoIdsAreSequential ==
  (\A q \in Procs : op[q].name = "addItemToCollection" => op[q].id = << >>) =>
     \A p \in addedOk :
        res[p].value[1].id =
           DecimalString(Cardinality({q \in addedOk : acquiredAt(q) <= acquiredAt(p)}))

\* C12: a successful add returns as index the collection's _index counter after
\* its increment and as length the number of records present in the collection
\* after the add, whatever adds and removes came before.
C12_AddReturnsIndexAndLength ==
  \A p \in Procs :
     (completed(p, "addItemToCollection") /\ res[p].kind = "Ok") =>
        /\ res[p].index = index[op[p].collection]
        /\ res[p].length = Cardinality(DOMAIN items[op[p].collection])

\* an add after a removal has returned: the counter is ahead of the length
C12_AddedAfterRemoval ==
  \E p \in Procs :
     /\ completed(p, "addItemToCollection") /\ res[p].kind = "Ok"
     /\ res[p].index = 2 /\ res[p].length = 1

\* caller p has completed a getItemInCollectionBy called right after its update
\* of an indexed record changed the value of the indexed field to one that no
\* other record holds
lookedUpAfterChange(p) ==
  /\ completed(p, "getItemInCollectionBy")
  /\ loc[p].after # << >>
  /\ loc[p].after[1].op.name = "updateItemInCollection"
  /\ LET u == loc[p].after[1]
         n == toIndexedCollectionName(op[p].collection, op[p].byKey)
     IN /\ u.op.collection = op[p].collection
        /\ n \in DOMAIN u.prev[1].indexedIn
        /\ prop(u.prev[1].val, op[p].byKey) # prop(u.next[1].val, op[p].byKey)
        /\ \A id \in DOMAIN items[op[p].collection] \ {u.op.id[1]} :
              String(prop(items[op[p].collection][id].val, op[p].byKey)) #
                 String(prop(u.next[1].val, op[p].byKey))

\* C13: after an update changed the indexed field f of a record from v1 to a v2
\* that no other record holds, getItemInCollectionBy(c, f, v1) fails with
\* CollectionFieldInexistent and getItemInCollectionBy(c, f, v2) returns the
\* updated record, after any number of such changes.
C13_IndexFollowsUpdate ==
  \A p \in Procs : lookedUpAfterChange(p) =>
     LET u == loc[p].after[1]
     IN /\ op[p].keyVal = prop(u.prev[1].val, op[p].byKey) =>
             res[p].kind = "Err" /\ res[p].err = "CollectionFieldInexistent"
        /\ op[p].keyVal = prop(u.next[1].val, op[p].byKey) =>
             res[p].kind = "Ok" /\ res[p].value[1].id = u.op.id[1]

\* caller p has completed a getItemInCollectionBy called right after the id of
\* a removed record, which was added with indexBy, was added again without
removedThenAddedAgain(p) ==
  /\ completed(p, "getItemInCollectionBy")
  /\ loc[p].after # << >>
  /\ loc[p].after[1].op.name = "addItemToCollection"
  /\ loc[p].after[1].after[1].op.name = "removeItemInCollection"
  /\ loc[p].after[1].after[1].op.collection = op[p].collection
  /\ toIndexedCollectionName(op[p].collection, op[p].byKey)
        \in DOMAIN loc[p].after[1].after[1].prev[1].indexedIn

\* C14: after the removal of a record that was added with indexBy,
\* getItemInCollectionBy of any of its index values fails with
\* CollectionFieldInexistent, and still fails after the same id has been added
\* again without indexBy.
C14_RemovalClearsIndexEntries ==
  \A p \in Procs :
     (/\ removedThenAddedAgain(p)
      /\ op[p].keyVal = loc[p].after[1].after[1].prev[1].indexedIn[
                           toIndexedCollectionName(op[p].collection, op[p].byKey)]) =>
        res[p].kind = "Err" /\ res[p].err = "CollectionFieldInexistent"

\* caller p has completed an update that was answered by the store
answered(p) == completed(p, "updateItemInCollection") /\ res[p].hmgets >= 1

\* the record an update of caller p is about, << >> when it is absent
stored(p) ==
  IF op[p].id[1] \in DOMAIN items[op[p].collection]
  THEN <<items[op[p].collection][op[p].id[1]]>>
  ELSE << >>

\* the declarations of caller p's update are not those of the stored record
mismatching(p) ==
  /\ stored(p) # << >>
  /\ \/ \E i \in 1..Len(op[p].foreignKeys) :
           \A j \in 1..Len(stored(p)[1].foreignKeys) :
              op[p].foreignKeys[i] # stored(p)[1].foreignKeys[j]
     \/ \E j \in 1..Len(stored(p)[1].foreignKeys) :
           \A i \in 1..Len(op[p].foreignKeys) :
              op[p].foreignKeys[i] # stored(p)[1].foreignKeys[j]

\* C15: an update whose opts.foreignKeys is not deeply equal to the stored
\* foreignKeys returns CollectionUpdateFailure:MismatchingForeignKeys without
\* calling the update function and without writing, and an update that wrote
\* stored the id and the foreignKeys the record had.
C15_ForeignKeysAndIdNeverChange ==
  \A p \in Procs :
     /\ (answered(p) /\ mismatching(p)) =>
           /\ res[p].kind = "Err"
           /\ res[p].err = "CollectionUpdateFailure:MismatchingForeignKeys"
           /\ ~wrote[p]
           /\ loc[p].next = << >>
     /\ (op[p].name = "updateItemInCollection" /\ wrote[p]) =>
           /\ stored(p) # << >>
           /\ stored(p)[1].id = loc[p].prev[1].id
           /\ stored(p)[1].id = op[p].id[1]
           /\ stored(p)[1].foreignKeys = loc[p].prev[1].foreignKeys

\* an update declaring other foreign keys was refused, another update wrote
C15_MismatchRefused ==
  \E p, q \in Procs :
     /\ answered(p) /\ mismatching(p) /\ res[p].kind = "Err"
     /\ completed(q, "updateItemInCollection") /\ wrote[q] /\ res[q].kind = "Ok"

\* the partial value caller p's update supplies for the stored value val
supplied(p, val) ==
  IF op[p].itemModelGetter.kind = "fn"
  THEN [k \in {"subscribers"} |->
          IdMap(ObjectKeys(val["subscribers"]) \cup {op[p].itemModelGetter.add})]
  ELSE op[p].itemModelGetter.props

\* next is the shallow merge of the partial value into val
shallowMerge(next, val, partial) ==
  /\ DOMAIN next = DOMAIN val \cup (DOMAIN partial \ {"id"})
  /\ \A k \in DOMAIN next :
        next[k] = IF k \in DOMAIN partial \ {"id"} THEN partial[k] ELSE val[k]

C17_FailingUpdateFunction ==
  \A p \in Procs :
     (answered(p) /\ op[p].itemModelGetter.kind = "asyncErr" /\ ~mismatching(p)
        /\ stored(p) # << >>) =>
        /\ res[p].kind = "Err" /\ res[p].err = "CollectionUpdateFailure"
        /\ ~wrote[p]
        /\ loc[p].next = << >>
        /\ \A r \in DOMAIN locks : locks[r] # p

\* the update function of an update failed, and the other caller then updated
\* the record
C17_UpdatedAfterFailure ==
  \E p, q \in Procs :
     /\ answered(p) /\ op[p].itemModelGetter.kind = "asyncErr" /\ res[p].kind = "Err"
     /\ completed(q, "updateItemInCollection") /\ res[q].kind = "Ok"
     /\ \E i, j \in 1..Len(acq) : acq[i] = p /\ acq[j] = q /\ i < j

\* C18: an update of an id that is not present returns
\* CollectionFieldInexistent without calling the update function, and never
\* creates the record nor changes the counter or the indexes.
C18_UpdateOfAbsentId ==
  /\ \A p \in Procs :
        (answered(p) /\ op[p].id = <<"2">>) =>
           /\ res[p].kind = "Err" /\ res[p].err = "CollectionFieldInexistent"
           /\ ~wrote[p]
           /\ loc[p].next = << >>
  /\ DOMAIN items["guests"] = {"1"}
  /\ index["guests"] = 1
  /\ indexes = Empty

\* an update of the absent id has returned
C18_AbsentIdUpdated ==
  \E p \in Procs : answered(p) /\ op[p].id = <<"2">> /\ res[p].kind = "Err"

\* C19: removeItemInCollection of a present record returns Ok with the
\* unchanged _index as index, the number of records that remain as length and
\* no item, and getItemInCollection of the id fails with
\* CollectionFieldInexistent as long as the id is not added again; of an absent
\* id it returns CollectionFieldInexistent and changes nothing.
C19_RemoveReturnsIndexAndLength ==
  /\ [](\A p \in Procs :
          LET c == op[p].collection
          IN /\ completed(p, "removeItemInCollection") =>
                  IF loc[p].prev # << >>
                  THEN /\ res[p].kind = "Ok" /\ res[p].value = << >>
                       /\ wrote[p]
                       /\ op[p].id[1] \notin DOMAIN items[c]
                       /\ res[p].index = index[c]
                       /\ res[p].length = Cardinality(DOMAIN items[c])
                  ELSE /\ res[p].kind = "Err"
                       /\ res[p].err = "CollectionFieldInexistent"
                       /\ ~wrote[p]
             /\ (completed(p, "getItemInCollection") /\ op[p].ids[1] \notin DOMAIN items[c]) =>
                  res[p].kind = "Err" /\ res[p].err = "CollectionFieldInexistent")
  /\ [][\A p \in Procs :
          (op[p].name = "removeItemInCollection" /\ pc[p] # "idle") =>
             /\ index' = index
             /\ (pc[p] = "remove:hmget") =>
                   /\ loc'[p].prev = hget(op[p].collection, op[p].id[1])
                   /\ <<items, indexes>>' = <<items, indexes>>]_vars

\* a removal has left one of two records: the counter is ahead of the length
C19_RemovedOneOfTwo ==
  \E p \in Procs :
     /\ completed(p, "removeItemInCollection") /\ res[p].kind = "Ok"
     /\ res[p].index = 2 /\ res[p].length = 1

\* C20: removeItemInCollectionBy(c, f, v) removes the record the index of f
\* maps v to, the record and all its index entries being gone afterwards, and
\* returns CollectionFieldInexistent when the index has no entry for v.
C20_RemoveByClearsRecordAndEntries ==
  \A p \in Procs : completed(p, "removeItemInCollectionBy") =>
     IF res[p].kind = "Ok"
     THEN /\ loc[p].prev # << >> /\ loc[p].prev[1].id = op[p].id[1]
          /\ op[p].id[1] \notin DOMAIN items[op[p].collection]
          /\ \A n \in DOMAIN loc[p].prev[1].indexedIn :
                hgetIndexed(n, String(loc[p].prev[1].indexedIn[n])) = << >>
     ELSE /\ res[p].kind = "Err" /\ res[p].err = "CollectionFieldInexistent"
          /\ ~wrote[p]

\* the object a written object is, its key order forgotten
RECURSIVE asObject(_)
asObject(node) ==
  [k \in {node[i].k : i \in 1..Len(node)} |->
     LET pr == node[CHOOSE i \in 1..Len(node) : node[i].k = k]
     IN IF pr.t = "obj" THEN asObject(pr.v) ELSE pr.v]

\* the queue of caller p's operation holds an item structurally equal to the
\* operation's
holdsEqual(p) ==
  \E i \in 1..Len(queues[toQueueName(op[p].q)]) :
     asObject(queues[toQueueName(op[p].q)][i]) = asObject(op[p].item)

\* every value of the object, at every level, is one JSON has
RECURSIVE jsonValued(_)
jsonValued(node) ==
  \A i \in 1..Len(node) :
     IF node[i].t = "obj" THEN jsonValued(node[i].v)
     ELSE node[i].v.t \notin {"undef", "nan"}

\* what removeFromQueue of caller p does when the store answers its command,
\* given that an equal item is held or not
removesIffHeld(p) ==
  (pc[p] = "removeFromQueue:lrem" /\ pc'[p] = "idle"
     /\ res'[p].err # "GenericRedisFailure") =>
     LET n == toQueueName(op[p].q)
     IN IF holdsEqual(p)
        THEN /\ res'[p].kind = "Ok"
             /\ Len(queues'[n]) < Len(queues[n])
             /\ \A i \in 1..Len(queues'[n]) : asObject(queues'[n][i]) # asObject(op[p].item)
        ELSE /\ res'[p].kind = "Err" /\ res'[p].err = "QueueItemNotFound"
             /\ queues' = queues

\* C24 as stated: removeFromQueue(q, x) succeeds iff the queue holds an item
\* structurally equal to x, whatever the key order, and then the queue size
\* decreases; otherwise it returns QueueItemNotFound and the queue is unchanged.
C24_RemovesIffStructurallyEqual ==
  [][\A p \in Procs : removesIffHeld(p)]_vars

\* C24: the same for an x whose values, at every level, are JSON values (none
\* is undefined or NaN).
C24_RemovesIffEqualJson ==
  [][\A p \in Procs : jsonValued(op[p].item) => removesIffHeld(p)]_vars

\* an item written in another key order than the sorted one was removed from
\* the queue
C24_RemovedScrambled ==
  \E p \in Procs :
     /\ completed(p, "removeFromQueue") /\ res[p].kind = "Ok"
     /\ jsonValued(op[p].item)
     /\ op[p].item # jsonStableStringify(op[p].item)

\* caller p has completed a call of the operation named name, which the store
\* answered
returned(p, name) == completed(p, name) /\ res[p].err # "StoreError"

\* caller p's call was made right after its removeCollection of the same
\* collection succeeded
afterRemoveCollection(p) ==
  /\ loc[p].after # << >>
  /\ loc[p].after[1].op.name = "removeCollection"

\* C21: after removeCollection(c) succeeds, getAllItemsInCollection(c) returns
\* Ok([]), getItemInCollection(c, id) fails with CollectionFieldInexistent,
\* getCollectionIndex(c) returns 0 and the next add without an id is assigned
\* '1'; getAllItemsInCollection of a collection never written returns Ok([]).
C21_RemovedCollectionIsEmpty ==
  \A p \in Procs :
     /\ (returned(p, "removeCollection") /\ res[p].kind = "Ok") =>
           items[op[p].collection] = Empty /\ index[op[p].collection] = 0
     /\ (returned(p, "getAllItemsInCollection") /\
           (afterRemoveCollection(p) \/ hlen(items, index, op[p].collection) = 0)) =>
           res[p].kind = "Ok" /\ res[p].value = << >>
     /\ (returned(p, "getItemInCollection") /\ afterRemoveCollection(p)) =>
           res[p].kind = "Err" /\ res[p].err = "CollectionFieldInexistent"
     /\ (returned(p, "getCollectionIndex") /\ afterRemoveCollection(p)) =>
           res[p].kind = "Ok" /\ res[p].index = 0
     /\ (returned(p, "addItemToCollection") /\ afterRemoveCollection(p) /\ op[p].id = << >>) =>
           res[p].kind = "Ok" /\ res[p].value[1].id = "1" /\ res[p].index = 1

\* a record added without an id right after the removal of its collection has
\* been returned, while the other collection holds records
C21_AddedAfterRemoveCollection ==
  \E p \in Procs :
     /\ returned(p, "addItemToCollection") /\ afterRemoveCollection(p)
     /\ op[p].collection = "peers" /\ res[p].kind = "Ok"
     /\ DOMAIN items["guests"] # {}

\* resolveForeignItems of the levels, and of the levels it goes on with, ends
\* with the hydrated records (within fuel levels)
RECURSIVE resolves(_, _)
resolves(levels, fuel) ==
  LET st == resolveStep(levels)
  IN CASE st.kind = "done" -> resolved(levels).kind = "Ok"
       [] st.kind = "err" -> FALSE
       [] OTHER -> fuel > 0 /\ resolves(st.levels, fuel - 1)

\* getItemInCollection(collection, id) would succeed now
retrievable(collection, id) ==
  /\ present(collection, id)
  /\ resolves(<<asLevel(collection, <<items[collection][id]>>)>>, MaxFuel)

\* the id the index of caller p's lookup holds for its value, if any
referenced(p) ==
  LET n == toIndexedCollectionName(op[p].collection, op[p].byKey)
  IN IF n \in DOMAIN indexes /\ String(op[p].keyVal) \in DOMAIN indexes[n]
     THEN {indexes[n][String(op[p].keyVal)]} ELSE {}

C23_GetAllReturnsEveryRecord ==
  \A p \in Procs : returned(p, "getAllItemsInCollection") =>
     LET c == op[p].collection
     IN /\ res[p].kind = "Ok"
        /\ \A id \in DOMAIN items[c] :
              retrievable(c, id) =>
                 /\ Cardinality({j \in 1..Len(res[p].value) : res[p].value[j].id = id}) = 1
                 /\ \A j \in 1..Len(res[p].value) :
                       res[p].value[j].id = id => res[p].value[j] = hydrated(c, id, MaxFuel)
        /\ \A j \in 1..Len(res[p].value) : retrievable(c, res[p].value[j].id)
        /\ res[p].batches <= depth({<<c, id>> : id \in DOMAIN items[c]}, MaxFuel)

\* the errors an operation may return
StoreErrors ==
  {"CollectionFieldInexistent", "CollectionAdditionFailure", "CollectionDeletionFailure",
   "CollectionUpdateFailure", "CollectionUpdateFailure:MismatchingForeignKeys",
   "CollectionOrFieldInexistent", "QueueItemNotFound", "GenericRedisFailure"}

\* C25: every operation completes with an explicit Ok or an Err of the
\* StoreErrors taxonomy, also when the backing store fails: no raw store error
\* crosses the operation boundary and no operation stays pending.
C25_EveryOperationReturnsOkOrErr ==
  \A p \in Procs :
     /\ pc[p] # "flush:pending"
     /\ (pc[p] = "idle" /\ res[p].kind # "none") =>
           \/ res[p].kind = "Ok"
           \/ res[p].kind = "Err" /\ res[p].err \in StoreErrors

\* C26: an update of (c, id) and an add to c that uses the same id are never
\* both between their lock acquisition and release at the same time.
C26_UpdateExcludesAddOfSameId ==
  \A p, q \in Procs :
     (p # q /\ inUpdate(p) /\ inAdd(q) /\ op[p].collection = op[q].collection) =>
        op[p].id # op[q].id

\* C27: in every state with no operation in flight, for every present record r
\* and every entry (n -> v) of r.indexedIn, the index hash n maps String(v) to
\* r.id, also when several records have the same indexed value and when an id
\* is added again over a present record.
C27_IndexedInHasItsEntry ==
  (\A p \in Procs : pc[p] = "idle") =>
     \A c \in Collections : \A id \in DOMAIN items[c] :
        \A n \in DOMAIN items[c][id].indexedIn :
           hgetIndexed(n, String(items[c][id].indexedIn[n])) = <<id>>

\* the ids of the records of a foreign collection that the foreign-key fields
\* of the records of a list refer to
referencedIn(itemsMetadata, collection) ==
  UNION {UNION {foreignIds(itemsMetadata[j], itemsMetadata[j].foreignKeys[i]) :
                  i \in {x \in 1..Len(itemsMetadata[j].foreignKeys) :
                           itemsMetadata[j].foreignKeys[x].collection = collection}} :
           j \in 1..Len(itemsMetadata)}

\* C28: for the records of a level, compactAllForeignKeys gives for each target
\* collection exactly the union of the foreign ids every foreign-key field of
\* every record targeting it refers to, also when one record has two
\* foreign-key fields targeting the same collection.
C28_CompactionIsTheUnion ==
  \A p \in Procs : pc[p] = "get:execMulti" =>
     LET itemsMetadata == metadataOf(loc[p].levels[Len(loc[p].levels)])
         all == compactAllForeignKeys(itemsMetadata)
     IN \A c \in Collections :
           (IF c \in DOMAIN all THEN all[c] ELSE {}) = referencedIn(itemsMetadata, c)

\* C29: resolution terminates for every store content, also for a cyclic
\* foreign-key graph: no read is left fetching level after level, and no level
\* a read is about to fetch from is one it has fetched from before (the next
\* level is a function of the last one, so a level that comes back comes back
\* for ever).
C29_ResolutionTerminates ==
  \A p \in Procs :
     /\ pc[p] # "get:unbounded"
     /\ pc[p] = "get:execMulti" =>
           \A i, j \in 1..Len(loc[p].levels) :
              i < j => loc[p].levels[i] # loc[p].levels[j]

\* the id the index hash n of ixs holds for key, if any
entryOf(ixs, n, key) ==
  IF n \in DOMAIN ixs /\ key \in DOMAIN ixs[n] THEN <<ixs[n][key]>> ELSE << >>

\* the keys of the index hash n of ixs
keysOf(ixs, n) == IF n \in DOMAIN ixs THEN DOMAIN ixs[n] ELSE {}

\* the write batch of caller p's update leaves alone everything but the record
\* and the old and new keys of the index hashes of its changed fields
updateFrame(p) ==
  LET c == op[p].collection
      id == op[p].id[1]
      prev == items[c][id]
      next == items'[c][id]
      field(n) == getByFieldNameFromIndexedCollection(n)
      changed == {n \in DOMAIN prev.indexedIn : prop(prev.val, field(n)) # prop(next.val, field(n))}
  IN /\ \A c2 \in Collections :
          /\ DOMAIN items'[c2] = DOMAIN items[c2]
          /\ \A id2 \in DOMAIN items[c2] :
                <<c2, id2>> # <<c, id>> => items'[c2][id2] = items[c2][id2]
     /\ index' = index
     /\ queues' = queues
     /\ hlen(items', index', c) = hlen(items, index, c)
     /\ \A n \in DOMAIN indexes \cup DOMAIN indexes' :
           \A key \in keysOf(indexes, n) \cup keysOf(indexes', n) :
              entryOf(indexes', n, key) # entryOf(indexes, n, key) =>
                 /\ n \in changed
                 /\ key \in {String(prop(prev.val, field(n))), String(prop(next.val, field(n)))}
     /\ \A n \in changed :
           String(prop(prev.val, field(n))) # String(prop(next.val, field(n))) =>
              /\ entryOf(indexes', n, String(prop(next.val, field(n)))) = <<id>>
              /\ entryOf(indexes', n, String(prop(prev.val, field(n)))) = << >>

\* C30: a successful update writes, in one step of the store, only the record
\* and, for each indexed field whose value changed, the new key and the old key
\* of that field's index hash; the entries of unchanged indexed fields, the
\* counter, the length, the other records and the other collections are
\* unchanged, and the record is never written without its index swap.
C30_UpdateWritesOnlyRecordAndSwap ==
  [][\A p \in Procs :
        IF pc[p] = "update:execMulti" /\ pc'[p] = "get:hmget"
        THEN updateFrame(p)
        ELSE (op[p].name = "updateItemInCollection" /\ op'[p] = op[p]) =>
                UNCHANGED <<items, index, indexes, queues>>]_vars

\* an update has changed the indexed value of a record while another record
\* of the collection has its index entry
C30_SwappedBesideAnotherRecord ==
  \E p \in Procs :
     /\ op[p].name = "updateItemInCollection" /\ wrote[p] /\ pc[p] = "get:hmget"
     /\ DOMAIN loc[p].prev[1].indexedIn # {}
     /\ loc[p].prev[1].indexedIn # loc[p].next[1].indexedIn
     /\ \E id \in DOMAIN items[op[p].collection] \ {op[p].id[1]} :
           \E n \in DOMAIN items[op[p].collection][id].indexedIn :
              entryOf(indexes, n, String(items[op[p].collection][id].indexedIn[n])) = <<id>>

\* the write batch of caller p's add, update or removal answers null in this step
batchFailsWholly(p) ==
  /\ pc[p] \in {"add:execMulti", "update:execMulti", "remove:execMulti"}
  /\ fails' = fails + 1
  /\ res'[p].err # "StoreError"

\* the error of the kind of an operation
errorOfKind(name) ==
  CASE name = "addItemToCollection" -> "CollectionFieldInexistent"
    [] name = "updateItemInCollection" -> "CollectionUpdateFailure"
    [] name = "removeItemInCollection" -> "CollectionDeletionFailure"

C32_RemovalDeletesEveryIndexEntry ==
  \A p \in Procs :
     (completed(p, "removeItemInCollection") /\ res[p].kind = "Ok") =>
        /\ \A n \in DOMAIN loc[p].prev[1].indexedIn :
              entryOf(indexes, n, String(loc[p].prev[1].indexedIn[n])) = << >>
        /\ \A n \in DOMAIN indexes : \A key \in DOMAIN indexes[n] :
              indexes[n][key] # op[p].id[1]

\* some other caller is between the acquisition and the release of the lock
\* of the item caller p is to update
itemLockedByAnother(p) ==
  \E q \in Procs \ {p} :
     inUpdate(q) /\ op[q].collection = op[p].collection /\ op[q].id = op[p].id

\* C33: an update of (c, id1) is never blocked by an in-flight or failed
\* update of another item of c, by an add to c or by an operation on another
\* collection: it is granted its lock whenever no other update of (c, id1)
\* holds it.
C33_DistinctLocksAreIndependent ==
  \A p \in Procs :
     (pc[p] = "update:lock" /\ ~itemLockedByAnother(p)) => ENABLED updateLock(p)

\* an update of one item has acquired its lock while an update of another
\* item of the collection, or an add to the collection, holds its own
C33_LockedBesideAnother ==
  \E p, q \in Procs :
     /\ p # q /\ inUpdate(p) /\ pc[p] = "update:hmget"
     /\ op[q].collection = op[p].collection
     /\ \/ inUpdate(q) /\ op[q].id # op[p].id
        \/ inAdd(q)

\* C34: an addItemToCollection without an explicit id is never assigned an id
\* currently held by a present record, so its write never overwrites a
\* record, whatever adds with caller-supplied ids came before.
C34_AutoIdIsFresh ==
  [][\A p \in Procs :
        (/\ pc[p] = "add:execMulti" /\ pc'[p] = "get:hmget"
         /\ op[p].id = << >>) =>
           ~present(op[p].collection, loc[p].resolvedId)]_vars

\* C35: an addItemToCollection or updateItemInCollection that returns an error
\* has left the records, the _index counter and the index hashes as they were
\* before the call: its write batch was not applied.
C35_FailedWriteHasNoEffect ==
  \A p \in Procs :
     (/\ completed(p, "addItemToCollection") \/ completed(p, "updateItemInCollection")
      /\ res[p].kind = "Err") =>
        ~wrote[p]

\* C36: for every interleaving of a removal with an update of the same record,
\* once both have completed and the removal returned Ok the record is absent,
\* and no present record is without the index entries of its indexedIn.
C36_RemovedStaysRemoved ==
  \A p, q \in Procs :
     (/\ completed(p, "removeItemInCollection") /\ res[p].kind = "Ok"
      /\ completed(q, "updateItemInCollection")
      /\ op[q].collection = op[p].collection /\ op[q].id = op[p].id) =>
        /\ ~present(op[p].collection, op[p].id[1])
        /\ \A id \in DOMAIN items[op[p].collection] :
              \A n \in DOMAIN items[op[p].collection][id].indexedIn :
                 entryOf(indexes, n, String(items[op[p].collection][id].indexedIn[n])) = <<id>>

\* C37: a getItemInCollectionBy(c, f, v) that succeeds while updates or
\* removals of the indexed record run returns a record whose field f equals v.
C37_LookupReturnsTheValueAskedFor ==
  \A p \in Procs :
     (completed(p, "getItemInCollectionBy") /\ res[p].kind = "Ok") =>
        prop(res[p].value[1].val, op[p].byKey) = op[p].keyVal

\* the indexedIn of every present record holds, per index hash, the record's
\* current value of the indexed field
indexedInMirrorsValue ==
  \A c \in Collections : \A id \in DOMAIN items[c] :
     \A n \in DOMAIN items[c][id].indexedIn :
        LET f == getByFieldNameFromIndexedCollection(n)
        IN /\ f \in DOMAIN items[c][id].val
           /\ items[c][id].indexedIn[n] = items[c][id].val[f]

\* the write batch of an add gives the record the index hashes of its indexBy
\* as the keys of indexedIn, the one of an update leaves the keys as they are
indexedInKeysAreIndexBy(p) ==
  LET c == op[p].collection
  IN /\ (pc[p] = "add:execMulti" /\ pc'[p] = "get:hmget") =>
           DOMAIN items'[c][loc[p].resolvedId].indexedIn =
              {toIndexedCollectionName(c, op[p].indexBy[j]) : j \in 1..Len(op[p].indexBy)}
     /\ (pc[p] = "update:execMulti" /\ pc'[p] = "get:hmget") =>
           DOMAIN items'[c][op[p].id[1]].indexedIn = DOMAIN items[c][op[p].id[1]].indexedIn

\* C38: after any sequence of adds and updates, for every present record r
\* and every key <c>:by:<f> of r.indexedIn, r.indexedIn[<c>:by:<f>] is r's
\* current value of f, and the keys of r.indexedIn are the indexBy given when
\* r was added.
C38_IndexedInMirrorsValue ==
  []indexedInMirrorsValue /\ [][\A p \in Procs : indexedInKeysAreIndexBy(p)]_vars

\* an update that changed the indexed value of a record has returned and the
\* record's indexedIn holds the new value
C38_MirroredAfterUpdate ==
  \E p \in Procs :
     /\ completed(p, "updateItemInCollection") /\ res[p].kind = "Ok"
     /\ present(op[p].collection, op[p].id[1])
     /\ \E n \in DOMAIN loc[p].prev[1].indexedIn :
           /\ loc[p].prev[1].indexedIn[n] # loc[p].next[1].indexedIn[n]
           /\ items[op[p].collection][op[p].id[1]].indexedIn[n] = loc[p].next[1].indexedIn[n]

\* caller p's lookup was made right after its removeCollection of the same
\* collection succeeded, or right after the add without indexBy that followed it
lookedUpAfterRemoveCollection(p) ==
  /\ returned(p, "getItemInCollectionBy")
  /\ loc[p].after # << >>
  /\ \/ loc[p].after[1].op.name = "removeCollection"
     \/ /\ loc[p].after[1].op.name = "addItemToCollection"
        /\ loc[p].after[1].op.indexBy = << >>
        /\ loc[p].after[1].after[1].op.name = "removeCollection"

\* C39: after removeCollection(c) has succeeded, getItemInCollectionBy(c, f, v)
\* fails with CollectionFieldInexistent for every f and v, also after a record
\* with a formerly indexed id has been added again without indexBy.
C39_RemovedCollectionHasNoIndex ==
  \A p \in Procs : lookedUpAfterRemoveCollection(p) =>
     res[p].kind = "Err" /\ res[p].err = "CollectionFieldInexistent"

\* what the instance of a namespace can read or wait for: its collections,
\* their counters and locks, and the queues
observable(config) ==
  [items |-> [c \in Collections |-> items[toNamespacedCollection(config, c)]],
   index |-> [c \in Collections |-> index[toNamespacedCollection(config, c)]],
   locks |-> {r \in DOMAIN locks :
                 \E c \in Collections : r[2] = toNamespacedCollection(config, c)},
   queues |-> [q \in Queues |-> queues[toQueueName(q)]]]

\* C40: two Store instances with different namespaces on one backing store
\* never read, modify or block each other's data: a step of an operation on
\* one leaves the records, counters, locks and queues observable through the
\* other unchanged.
C40_NamespacesAreIsolated ==
  [][\A p \in Procs : pc'[p] # pc[p] =>
        \A i \in 1..Len(Namespaces) :
           Namespaces[i] # configOf(p) =>
              observable(Namespaces[i])' = observable(Namespaces[i])]_vars

====
